---- MODULE Spec2Model ----
(***************************************************************************)
(* Model of the Affentanz workflow playback: AutomationEngine.play_workflow *)
(* and _execute_action (src/automation_engine.py), the WorkflowThread that  *)
(* runs it (src/threads.py) and the start/stop entry points of MainWindow   *)
(* (src/main.py).  Times are in milliseconds.                               *)
(***************************************************************************)
EXTENDS Integers, Sequences, FiniteSets, TLC

\* ------------------------------------------------------------------ bounds
MaxLen == 2
MaxSteps == 3
MaxThreads == 2
MaxTicks == 3
MaxScreens == 2

Threads == 1..MaxThreads

\* ------------------------------------------------------------ action model
ActionType ==
  { "MOUSE_MOVE", "MOUSE_CLICK", "MOUSE_DOUBLE_CLICK", "MOUSE_RIGHT_CLICK",
    "MOUSE_DRAG", "KEY_PRESS", "KEY_COMBO", "WAIT", "WAIT_FOR_COLOR",
    "WAIT_FOR_TEXT" }

get_default_params(action_type) ==
  CASE action_type \in { "MOUSE_MOVE", "MOUSE_CLICK", "MOUSE_DOUBLE_CLICK",
                         "MOUSE_RIGHT_CLICK" } ->
         [x |-> 0, y |-> 0, duration |-> 100]
    [] action_type = "MOUSE_DRAG" ->
         [start_x |-> 0, start_y |-> 0, end_x |-> 100, end_y |-> 100,
          duration |-> 500]
    [] action_type = "KEY_PRESS" -> [key |-> "enter"]
    [] action_type = "KEY_COMBO" -> [keys |-> <<"ctrl", "c">>]
    [] action_type = "WAIT" -> [seconds |-> 1000]
    [] action_type = "WAIT_FOR_COLOR" ->
         [x |-> 0, y |-> 0, color |-> <<255, 0, 0>>, tolerance |-> 10,
          timeout |-> 10000]
    [] OTHER ->
         [region |-> <<0, 0, 200, 100>>, text |-> "Beispieltext",
          timeout |-> 10000]

Action(action_type, params) == [action_type |-> action_type, params |-> params]

\* The parameters each kind reads with params[...] (a missing one is a KeyError).
RequiredParams(action_type) ==
  CASE action_type \in { "MOUSE_MOVE", "MOUSE_CLICK", "MOUSE_DOUBLE_CLICK",
                         "MOUSE_RIGHT_CLICK" } -> {"x", "y"}
    [] action_type = "MOUSE_DRAG" -> {"end_x", "end_y"}
    [] action_type = "KEY_PRESS" -> {"key"}
    [] action_type = "KEY_COMBO" -> {"keys"}
    [] action_type = "WAIT" -> {"seconds"}
    [] action_type = "WAIT_FOR_COLOR" -> {"x", "y", "color"}
    [] OTHER -> {"region", "text"}

ValidParams(a) == RequiredParams(a.action_type) \subseteq DOMAIN a.params

\* What a call of the input backend (pyautogui) can do.
BackendOutcomes == {"ok", "FailSafeException", "PyAutoGUIException"}

\* _execute_action: "ok", or the name of the exception it re-raises.  The
\* if/elif chain compares the kind with each member in turn; the branch after
\* KEY_COMBO names ActionType.TEXT_WRITE, which the enumeration does not
\* define, so evaluating it raises AttributeError for every kind that gets
\* there (WAIT, WAIT_FOR_COLOR, WAIT_FOR_TEXT).
_execute_action(a, backend) ==
  CASE a.action_type \in { "MOUSE_MOVE", "MOUSE_CLICK", "MOUSE_DOUBLE_CLICK",
                           "MOUSE_RIGHT_CLICK", "MOUSE_DRAG", "KEY_PRESS",
                           "KEY_COMBO" } ->
         IF ValidParams(a) THEN backend ELSE "KeyError"
    [] OTHER -> "AttributeError"

\* play_workflow's "except Exception": every exception modelled derives from it.
ExceptionClasses ==
  {"FailSafeException", "PyAutoGUIException", "KeyError", "AttributeError"}

CaughtByPlayWorkflow(exc) == exc \in ExceptionClasses

\* pyautogui.isKeyDown(abort_key) as the engine sees it; a failing query is
\* swallowed by _check_abort_key's bare except.
KeyStates == {"down", "up", "error"}

\* A check that takes a failed query for a held key.
_check_abort_key_unless_up(key) == key # "up"

_check_abort_key(key) == key = "down"

\* How the history records what a check of the abort key returned.
Held(result) == IF result THEN "held" ELSE "not held"

\* ------------------------------------------------------------------ state
VARIABLES
  workflow,         \* engine.workflow
  loop_enabled,     \* engine.loop_enabled
  loop_pause,       \* engine.loop_pause (ms)
  abort_key,        \* engine.abort_key
  is_playing,       \* engine.is_playing
  tpc,              \* each WorkflowThread's position
  idx,              \* each run's loop index i
  paused,           \* WorkflowThread.paused
  pending,          \* the exception propagating out of play_workflow, if any
  trace,            \* history: what each run did, in order
  workflow_thread,  \* MainWindow.workflow_thread (0: None)
  mpc,              \* the main thread's position
  since_pause,      \* history: actions each run executed since pause() returned
  screen_info,      \* engine.screen_info["screens"]
  tracker,          \* ActionEditor: position tracking and its target fields
  poll,             \* the call being made on the engine outside a run, if any
  displays,         \* QApplication.screens() as it is now
  rec,              \* engine.is_recording and the RecordingThread
  ui                \* the toolbar: which actions are enabled, record's check

vars == << workflow, loop_enabled, loop_pause, abort_key, is_playing, tpc,
           idx, paused, pending, trace, workflow_thread, mpc, since_pause,
           screen_info, tracker, poll, displays, rec, ui >>

\* What a run's own steps never touch.
backdrop == << screen_info, tracker, poll, displays, rec >>

\* What playback and its controls never touch (the handlers that start and
\* stop a run set the toolbar).
aside == << backdrop, ui >>

\* The displays, the recorder and the toolbar.
desk == << displays, rec, ui >>

engineCfg == << workflow, loop_enabled, loop_pause, abort_key >>

Ev(e, i, v) == [e |-> e, i |-> i, v |-> v]

Log(t, ev) == trace' = [trace EXCEPT ![t] = Append(@, ev)]

Goto(t, pc) == tpc' = [tpc EXCEPT ![t] = pc]

RECURSIVE SelectEv(_, _)
SelectEv(s, kinds) ==
  IF s = << >> THEN << >>
  ELSE IF Head(s).e \in kinds THEN << Head(s) >> \o SelectEv(Tail(s), kinds)
       ELSE SelectEv(Tail(s), kinds)

NumExec(t) == Len(SelectEv(trace[t], {"exec", "raise"}))

\* ------------------------------------------------------------------ inputs
DefaultActions == { Action(k, get_default_params(k)) : k \in ActionType }

\* A pointer move saved without its x: params["x"] raises KeyError.
BrokenMove == Action("MOUSE_MOVE", [y |-> 0, duration |-> 100])

SampleActions == DefaultActions \cup {BrokenMove}

\* The kinds the concurrency specification runs: one that reaches the
\* backend and one that raises.
ControlActions ==
  { Action("MOUSE_MOVE", get_default_params("MOUSE_MOVE")),
    Action("WAIT", get_default_params("WAIT")) }

SeqsUpTo(S, n) == UNION { [1..k -> S] : k \in 1..n }

LoopPauses == {0, 1000}

\* No position tracking and no perceptual wait going on.
NoTracker == [pc |-> "off"]

NoPoll == [pc |-> "none"]

\* The recorder: engine.is_recording, MainWindow.recording_thread (ref), the
\* thread's position and fields, and as history what it sampled and emitted.
Recorder(is_recording, ref, pc, running) ==
  [is_recording |-> is_recording, ref |-> ref, pc |-> pc, running |-> running,
   initial_mouse_pos |-> << >>, last_mouse_position |-> << >>,
   last_mouse_time |-> 0, now |-> 0, sampled |-> << >>, emitted |-> << >>,
   delivered |-> 0]

\* No recording: engine.is_recording False and no RecordingThread.
NoRecorder == Recorder(FALSE, FALSE, "none", FALSE)

\* create_toolbar: play and record enabled, stop disabled (main.py line 228),
\* record not checked
Toolbar(play, record, stop, checked) ==
  [play |-> play, record |-> record, stop |-> stop, checked |-> checked]

\* The displays are those the engine saw when it was made, no recording, and
\* the toolbar as create_toolbar leaves it.
DeskAtStart ==
  /\ displays = screen_info
  /\ rec = NoRecorder
  /\ ui = Toolbar(TRUE, TRUE, FALSE, FALSE)

InitWith(actions) ==
  /\ workflow \in SeqsUpTo(actions, MaxLen)
  /\ loop_enabled \in BOOLEAN
  /\ loop_pause \in LoopPauses
  /\ abort_key = "esc"
  /\ is_playing = FALSE
  /\ tpc = [t \in Threads |-> "new"]
  /\ idx = [t \in Threads |-> 0]
  /\ paused = [t \in Threads |-> FALSE]
  /\ pending = [t \in Threads |-> "none"]
  /\ trace = [t \in Threads |-> << >>]
  /\ workflow_thread = 0
  /\ mpc = "idle"
  /\ since_pause = [t \in Threads |-> 0]
  /\ screen_info = << >>
  /\ tracker = NoTracker
  /\ poll = NoPoll
  /\ DeskAtStart

Init == InitWith(ControlActions)

InitRun == InitWith(SampleActions)

\* ------------------------------------------------- WorkflowThread.run steps
\* An entry that looks at the playing flag only.
EnterAnyWorkflow(t) ==
  /\ tpc[t] = "enter"
  /\ IF is_playing
       THEN Goto(t, "run_finally")
       ELSE Goto(t, "set")
  /\ UNCHANGED << aside, since_pause, engineCfg,
                  is_playing, idx, paused, pending, trace,
                  workflow_thread, mpc >>

\* play_workflow line 126: an engine that is playing, or an empty workflow,
\* returns at once (to run's finally).
Enter(t) ==
  /\ tpc[t] = "enter"
  /\ IF is_playing \/ workflow = << >>
       THEN Goto(t, "run_finally")
       ELSE Goto(t, "set")
  /\ UNCHANGED << aside, since_pause, engineCfg,
                  is_playing, idx, paused, pending, trace,
                  workflow_thread, mpc >>

\* line 129
SetPlaying(t) ==
  /\ tpc[t] = "set"
  /\ is_playing' = TRUE
  /\ Log(t, Ev("play", 0, ""))
  /\ Goto(t, "while")
  /\ UNCHANGED << aside, since_pause, engineCfg,
                  idx, paused, pending, workflow_thread, mpc >>

\* line 133: while self.is_playing, and the start of the for loop
WhileCheck(t) ==
  /\ tpc[t] = "while"
  /\ IF is_playing
       THEN Goto(t, "for") /\ idx' = [idx EXCEPT ![t] = 0]
       ELSE Goto(t, "pw_finally") /\ UNCHANGED idx
  /\ UNCHANGED << aside, since_pause, engineCfg,
                  is_playing, paused, pending, trace,
                  workflow_thread, mpc >>

\* lines 134-136: the next (i, action), and the flag check before it
ForNext(t) ==
  /\ tpc[t] = "for"
  /\ IF idx[t] < Len(workflow) /\ is_playing
       THEN Goto(t, "exec")
       ELSE Goto(t, "after")
  /\ UNCHANGED << aside, since_pause, engineCfg,
                  is_playing, idx, paused, pending, trace,
                  workflow_thread, mpc >>

\* A failure swallowed inside the loop: the run would go on to the key check.
RaiseTargetContinue == "abort"

\* Where control goes when _execute_action raises: out of both loops, to
\* play_workflow's except (which only prints) and finally.
RaiseTarget == "pw_finally"

\* A run that takes each action off the workflow as it executes it.
ExecConsumes(t) ==
  /\ tpc[t] = "exec"
  /\ NumExec(t) < MaxSteps
  /\ workflow' = SubSeq(workflow, 1, idx[t])
                  \o SubSeq(workflow, idx[t] + 2, Len(workflow))
  /\ Log(t, Ev("exec", idx[t], ""))
  /\ Goto(t, "callback")
  /\ UNCHANGED << aside, since_pause, loop_enabled, loop_pause, abort_key,
                  is_playing,
                  idx, paused, pending, workflow_thread, mpc >>

\* line 138: self._execute_action(action)
Exec(t) ==
  /\ tpc[t] = "exec"
  /\ NumExec(t) < MaxSteps
  /\ \E backend \in BackendOutcomes :
       LET r == _execute_action(workflow[idx[t] + 1], backend) IN
         IF r = "ok"
           THEN /\ Log(t, Ev("exec", idx[t], ""))
                /\ Goto(t, "callback")
                /\ UNCHANGED pending
           ELSE /\ Log(t, Ev("raise", idx[t], r))
                /\ Goto(t, RaiseTarget)
                /\ pending' = [pending EXCEPT ![t] =
                                 IF CaughtByPlayWorkflow(r) THEN "none" ELSE r]
  /\ since_pause' = [since_pause EXCEPT ![t] = IF paused[t] THEN @ + 1 ELSE @]
  /\ UNCHANGED << aside, engineCfg, is_playing, idx, paused, workflow_thread,
                  mpc >>

\* lines 140-141 and threads.py line 37: callback(i) emits progress_updated
Callback(t) ==
  /\ tpc[t] = "callback"
  /\ Log(t, Ev("cb", idx[t], ""))
  /\ Goto(t, "lock")
  /\ UNCHANGED << aside, since_pause, engineCfg,
                  is_playing, idx, paused, pending,
                  workflow_thread, mpc >>

\* A callback that never blocks, whatever the paused flag says.
PauseCheckSkipped(t) ==
  /\ tpc[t] = "lock"
  /\ Goto(t, "abort")
  /\ UNCHANGED << aside, since_pause, engineCfg, is_playing, idx, paused,
                  pending, trace, workflow_thread, mpc >>

\* threads.py lines 40-43: under the mutex, wait on the condition if paused
PauseCheck(t) ==
  /\ tpc[t] = "lock"
  /\ IF paused[t]
       THEN Log(t, Ev("pausewait", idx[t], "")) /\ Goto(t, "waiting")
       ELSE Goto(t, "abort") /\ UNCHANGED trace
  /\ UNCHANGED << aside, since_pause, engineCfg,
                  is_playing, idx, paused, pending,
                  workflow_thread, mpc >>

\* A held abort key that leaves the flag as it is.
PlayingAfterAbortKept(held, playing) == playing

\* lines 145 and 158: a held abort key clears the flag
PlayingAfterAbort(held, playing) == IF held THEN FALSE ELSE playing

\* lines 144-146: the abort key after the callback
AbortCheck(t) ==
  /\ tpc[t] = "abort"
  /\ \E key \in KeyStates :
       /\ Log(t, Ev("key", idx[t], Held(_check_abort_key(key))))
       /\ is_playing' = PlayingAfterAbort(_check_abort_key(key), is_playing)
       /\ IF _check_abort_key(key)
            THEN Goto(t, "after") /\ UNCHANGED idx
            ELSE Goto(t, "for") /\ idx' = [idx EXCEPT ![t] = @ + 1]
  /\ UNCHANGED << aside, since_pause, engineCfg,
                  paused, pending, workflow_thread, mpc >>

\* A run that ends after its first pass whatever loop_enabled says.
LoopBreaksAlways(loop, playing) == TRUE

\* line 149
LoopBreaks(loop, playing) == ~loop \/ ~playing

AfterPass(t) ==
  /\ tpc[t] = "after"
  /\ IF LoopBreaks(loop_enabled, is_playing)
       THEN Goto(t, "pw_finally")
       ELSE Goto(t, "pause")
  /\ UNCHANGED << aside, since_pause, engineCfg,
                  is_playing, idx, paused, pending, trace,
                  workflow_thread, mpc >>

\* A pause between passes that never looks at the abort key.
LoopPauseChecksNever(pause) == FALSE

\* line 153: the sleep and the second key check happen only for a positive pause
LoopPauseChecks(pause) == pause > 0

\* lines 153-159: the pause between two passes
LoopPause(t) ==
  /\ tpc[t] = "pause"
  /\ IF LoopPauseChecks(loop_pause)
       THEN \E key \in KeyStates :
              /\ Log(t, Ev("key2", 0, Held(_check_abort_key(key))))
              /\ is_playing' = PlayingAfterAbort(_check_abort_key(key), is_playing)
              /\ IF _check_abort_key(key)
                   THEN Goto(t, "pw_finally")
                   ELSE Goto(t, "while")
       ELSE Goto(t, "while") /\ UNCHANGED << trace, is_playing >>
  /\ UNCHANGED << aside, since_pause, engineCfg,
                  idx, paused, pending, workflow_thread, mpc >>

\* line 163: play_workflow's finally
PwFinally(t) ==
  /\ tpc[t] = "pw_finally"
  /\ is_playing' = FALSE
  /\ Goto(t, "run_finally")
  /\ UNCHANGED << aside, since_pause, engineCfg,
                  idx, paused, pending, trace, workflow_thread,
                  mpc >>

\* threads.py lines 46-51: error_occurred for an exception that reached run,
\* then the finally: the flag, and finished
RunFinally(t) ==
  /\ tpc[t] = "run_finally"
  /\ is_playing' = FALSE
  /\ trace' = [trace EXCEPT ![t] =
                 @ \o (IF pending[t] = "none" THEN << >>
                       ELSE << Ev("error", 0, pending[t]) >>)
                   \o << Ev("finished", 0, "") >>]
  /\ pending' = [pending EXCEPT ![t] = "none"]
  /\ Goto(t, "done")
  /\ UNCHANGED << aside, since_pause, engineCfg,
                  idx, paused, workflow_thread, mpc >>

\* lines 144-146 when the query of the key fails
AbortCheckFails(t) ==
  /\ tpc[t] = "abort"
  /\ Log(t, Ev("key", idx[t], Held(_check_abort_key("error"))))
  /\ is_playing' = PlayingAfterAbort(_check_abort_key("error"), is_playing)
  /\ IF _check_abort_key("error")
       THEN Goto(t, "after") /\ UNCHANGED idx
       ELSE Goto(t, "for") /\ idx' = [idx EXCEPT ![t] = @ + 1]
  /\ UNCHANGED << aside, since_pause, engineCfg,
                  paused, pending, workflow_thread, mpc >>

\* lines 153-159 when the query of the key fails
LoopPauseFails(t) ==
  /\ tpc[t] = "pause"
  /\ IF LoopPauseChecks(loop_pause)
       THEN /\ Log(t, Ev("key2", 0, Held(_check_abort_key("error"))))
            /\ is_playing' = PlayingAfterAbort(_check_abort_key("error"),
                                               is_playing)
            /\ IF _check_abort_key("error")
                 THEN Goto(t, "pw_finally")
                 ELSE Goto(t, "while")
       ELSE Goto(t, "while") /\ UNCHANGED << trace, is_playing >>
  /\ UNCHANGED << aside, since_pause, engineCfg,
                  idx, paused, pending, workflow_thread, mpc >>

\* A run's steps when every query of the abort key fails.
WorkerKeyFails(t) ==
  \/ Enter(t) \/ SetPlaying(t) \/ WhileCheck(t) \/ ForNext(t) \/ Exec(t)
  \/ Callback(t) \/ PauseCheck(t) \/ AbortCheckFails(t) \/ AfterPass(t)
  \/ LoopPauseFails(t) \/ PwFinally(t) \/ RunFinally(t)

Worker(t) ==
  \/ Enter(t) \/ SetPlaying(t) \/ WhileCheck(t) \/ ForNext(t) \/ Exec(t)
  \/ Callback(t) \/ PauseCheck(t) \/ AbortCheck(t) \/ AfterPass(t)
  \/ LoopPause(t) \/ PwFinally(t) \/ RunFinally(t)

\* ---------------------------------------------------------- the main thread
Ended(t) == tpc[t] \in {"done", "killed"}

\* MainWindow.play_workflow: a new WorkflowThread unless the workflow is empty
\* or the engine says it is playing; then play and record are disabled and
\* stop is enabled (lines 443-445)
MainPlay ==
  /\ mpc = "idle"
  /\ workflow # << >>
  /\ ~is_playing
  /\ \E t \in Threads :
       /\ tpc[t] = "new"
       /\ \A u \in Threads : u < t => tpc[u] # "new"
       /\ Goto(t, "enter")
       /\ workflow_thread' = t
  /\ ui' = [ui EXCEPT !.play = FALSE, !.record = FALSE, !.stop = TRUE]
  /\ UNCHANGED << backdrop, since_pause, engineCfg,
                  is_playing, idx, paused, pending, trace, mpc >>

\* A wake-up that reaches no waiter.
WakeAllLost(pc) == pc

\* A woken run that goes back to the action it had just done.
WakeAllRepeat(pc) == IF pc = "waiting" THEN "for" ELSE pc

\* QWaitCondition.wakeAll: a thread blocked in the wait goes on after it
WakeAll(pc) == IF pc = "waiting" THEN "abort" ELSE pc

\* WorkflowThread.pause (on a run already paused it changes nothing)
Pause ==
  /\ mpc = "idle"
  /\ workflow_thread # 0
  /\ ~paused[workflow_thread]
  /\ paused' = [paused EXCEPT ![workflow_thread] = TRUE]
  /\ since_pause' = [since_pause EXCEPT ![workflow_thread] = 0]
  /\ UNCHANGED << aside, engineCfg, is_playing, tpc, idx, pending, trace,
                  workflow_thread, mpc >>

\* WorkflowThread.resume (on a run not paused it changes nothing: no thread
\* waits while paused is false)
Resume ==
  /\ mpc = "idle"
  /\ workflow_thread # 0
  /\ paused[workflow_thread]
  /\ paused' = [paused EXCEPT ![workflow_thread] = FALSE]
  /\ tpc' = [tpc EXCEPT ![workflow_thread] = WakeAll(@)]
  /\ since_pause' = [since_pause EXCEPT ![workflow_thread] = 0]
  /\ UNCHANGED << aside, engineCfg, is_playing, idx, pending, trace,
                  workflow_thread, mpc >>

\* A stop() that wakes and waits but leaves the playing flag as it is.
StopBeginFlagKept ==
  /\ mpc = "idle"
  /\ workflow_thread # 0
  /\ Log(workflow_thread,
         Ev("stop_called", 0,
            IF tpc[workflow_thread] = "waiting" THEN "blocked" ELSE ""))
  /\ mpc' = "stop_wake"
  /\ UNCHANGED << aside, since_pause, engineCfg, is_playing, tpc, idx, paused,
                  pending, workflow_thread >>

\* MainWindow.stop_workflow calling WorkflowThread.stop, lines 56-57
StopBegin ==
  /\ mpc = "idle"
  /\ workflow_thread # 0
  /\ is_playing' = FALSE
  /\ Log(workflow_thread,
         Ev("stop_called", 0,
            IF tpc[workflow_thread] = "waiting" THEN "blocked" ELSE ""))
  /\ mpc' = "stop_wake"
  /\ UNCHANGED << aside, since_pause, engineCfg,
                  tpc, idx, paused, pending, workflow_thread >>

\* WorkflowThread.stop, lines 60-63
StopWake ==
  /\ mpc = "stop_wake"
  /\ paused' = [paused EXCEPT ![workflow_thread] = FALSE]
  /\ tpc' = [tpc EXCEPT ![workflow_thread] = WakeAll(@)]
  /\ mpc' = "stop_wait"
  /\ since_pause' = [since_pause EXCEPT ![workflow_thread] = 0]
  /\ UNCHANGED << aside, engineCfg, is_playing, idx, pending, trace,
                  workflow_thread >>

\* A stop that gives up after the grace period and leaves the thread running.
TerminateIgnored(pc) == pc

\* QThread.terminate followed by wait(): the thread runs no further
Terminate(pc) == "killed"

\* main.py lines 466-468, 513-515 and 538-540: play and record enabled, stop
\* disabled
ToolbarReset == [ui EXCEPT !.play = TRUE, !.record = TRUE, !.stop = FALSE]

\* WorkflowThread.stop, lines 66-69: wait(1000) returns when the thread has
\* ended; when the second runs out first the thread is terminated.  Then
\* stop_workflow drops its reference and resets the toolbar.
StopWait ==
  /\ mpc = "stop_wait"
  /\ tpc' = [tpc EXCEPT ![workflow_thread] =
               IF Ended(workflow_thread) THEN @ ELSE Terminate(@)]
  /\ Log(workflow_thread, Ev("stop_returned", 0, ""))
  /\ workflow_thread' = 0
  /\ mpc' = "idle"
  /\ ui' = ToolbarReset
  /\ UNCHANGED << backdrop, since_pause, engineCfg,
                  is_playing, idx, paused, pending >>

\* -------------------------------------------------------- perceptual waits
\* What the rest of the program is doing is left alone by the steps below.
playback == << workflow, loop_enabled, loop_pause, abort_key, tpc, idx,
               paused, pending, trace, workflow_thread, mpc, since_pause >>

Abs(n) == IF n < 0 THEN -n ELSE n

Min(a, b) == IF a < b THEN a ELSE b

\* A comparison that leaves out the boundary.
ChannelWithinStrict(a, b, tolerance) == Abs(a - b) < tolerance

\* line 340: abs(a-b) <= tolerance
ChannelWithin(a, b, tolerance) == Abs(a - b) <= tolerance

\* lines 337-340: an RGBA pixel is cut to its first three values, then all()
\* over zip(pixel_color, target_color)
ColorMatches(pixel_color, target_color, tolerance) ==
  LET rgb == IF Len(pixel_color) > 3 THEN SubSeq(pixel_color, 1, 3)
                                     ELSE pixel_color
  IN \A c \in 1..Min(Len(rgb), Len(target_color)) :
       ChannelWithin(rgb[c], target_color[c], tolerance)

\* line 375: text in recognized_text (strings as sequences of characters)
TextMatches(text, recognized_text) ==
  \E i \in 0..(Len(recognized_text) - Len(text)) :
    SubSeq(recognized_text, i + 1, i + Len(text)) = text

\* time.sleep(0.1) and time.sleep(0.5), in ms
PollInterval(fn) == IF fn = "_wait_for_color" THEN 100 ELSE 500

\* How long a capture (and recognition) takes, in ms.
CaptureTimes == {0, 100}

Timeouts(fn) == { k * PollInterval(fn) : k \in 0..MaxTicks }

\* What ImageGrab.grab(...).getpixel gives at one tick: an RGB or RGBA pixel,
\* or an exception (ok = FALSE).
ColorSamples ==
  { [ok |-> TRUE, v |-> px] :
      px \in { << 255, 0, 0 >>, << 245, 10, 10 >>, << 255, 0, 11 >>,
               << 255, 0, 0, 0 >>, << 0, 0, 0, 255 >> } }
  \cup { [ok |-> FALSE, v |-> << >>] }

\* What pytesseract.image_to_string gives at one tick, or an exception.
TextSamples ==
  { [ok |-> TRUE, v |-> txt] :
      txt \in { << "O", "K" >>, << "N", "O", "K", "!" >>, << "o", "k" >>,
                << >> } }
  \cup { [ok |-> FALSE, v |-> << >>] }

Regions == { << 0, 0, 200 >>, << 0, 0, 200, 100 >>, << 0, 0, 200, 100, 7 >> }

NewCall(fn, args) ==
  [pc |-> "call", fn |-> fn, args |-> args, elapsed |-> 0, samples |-> << >>,
   result |-> "none"]

ColorCalls ==
  { NewCall("_wait_for_color",
            [target_color |-> << 255, 0, 0 >>, tolerance |-> tol,
             timeout |-> to]) :
      tol \in {0, 10}, to \in Timeouts("_wait_for_color") }

TextCalls ==
  { NewCall("_wait_for_text",
            [region |-> r, text |-> << "O", "K" >>, timeout |-> to]) :
      r \in Regions, to \in Timeouts("_wait_for_text") }

ExecuteCalls ==
  { NewCall("_execute_action",
            [action |-> Action("WAIT_FOR_TEXT",
                               [region |-> r, text |-> "OK", timeout |-> to])]) :
      r \in Regions, to \in {0, 1000} }

\* A sample as the history keeps it: when it was taken and what is_playing
\* was at that tick.
Taken(sample) ==
  [at |-> poll.elapsed, playing |-> is_playing, ok |-> sample.ok,
   v |-> sample.v]

Return(result) ==
  [poll EXCEPT !.pc = "returned", !.result = result]

Raise(exc) ==
  [poll EXCEPT !.pc = "raised", !.result = exc]

\* A failed capture that gets out of the wait.
SampleFailureRaises == Raise("Exception")

\* lines 342-343 and 376-377: except Exception prints, and the tick goes on
\* to its sleep
SampleFailure == [poll EXCEPT !.pc = "sleep"]

\* line 330: start_time = time.time()
WaitForColorStart ==
  /\ poll.pc = "call"
  /\ poll.fn = "_wait_for_color"
  /\ poll' = [poll EXCEPT !.pc = "poll"]
  /\ UNCHANGED << playback, desk, is_playing, screen_info, tracker >>

\* lines 361-364: the region check, then start_time
WaitForTextStart ==
  /\ poll.pc = "call"
  /\ poll.fn = "_wait_for_text"
  /\ poll' = IF Len(poll.args.region) # 4
               THEN Raise("ValueError")
               ELSE [poll EXCEPT !.pc = "poll"]
  /\ UNCHANGED << playback, desk, is_playing, screen_info, tracker >>

\* _execute_action on a WAIT_FOR_TEXT action
ExecuteWaitForText ==
  /\ poll.pc = "call"
  /\ poll.fn = "_execute_action"
  /\ LET r == _execute_action(poll.args.action, "ok") IN
       poll' = IF r = "ok" THEN Return("None") ELSE Raise(r)
  /\ UNCHANGED << playback, desk, is_playing, screen_info, tracker >>

\* lines 331-347: one pass of _wait_for_color's while loop up to its sleep
ColorTick ==
  /\ poll.pc = "poll"
  /\ poll.fn = "_wait_for_color"
  /\ IF poll.elapsed < poll.args.timeout
       THEN \E sample \in ColorSamples :
              LET seen == [poll EXCEPT !.samples = Append(@, Taken(sample))] IN
                poll' =
                  IF ~sample.ok
                    THEN [SampleFailure EXCEPT !.samples = seen.samples]
                  ELSE IF ColorMatches(sample.v, poll.args.target_color,
                                       poll.args.tolerance)
                         THEN [Return("True") EXCEPT !.samples = seen.samples]
                         ELSE [seen EXCEPT !.pc = "sleep"]
       ELSE poll' = Return("False")
  /\ UNCHANGED << playback, desk, is_playing, screen_info, tracker >>

\* lines 365-381: one pass of _wait_for_text's while loop up to its sleep
TextTick ==
  /\ poll.pc = "poll"
  /\ poll.fn = "_wait_for_text"
  /\ IF poll.elapsed < poll.args.timeout
       THEN \E sample \in TextSamples :
              LET seen == [poll EXCEPT !.samples = Append(@, Taken(sample))] IN
                poll' =
                  IF ~sample.ok
                    THEN [SampleFailure EXCEPT !.samples = seen.samples]
                  ELSE IF TextMatches(poll.args.text, sample.v)
                         THEN [Return("True") EXCEPT !.samples = seen.samples]
                         ELSE [seen EXCEPT !.pc = "sleep"]
       ELSE poll' = Return("False")
  /\ UNCHANGED << playback, desk, is_playing, screen_info, tracker >>

\* lines 345 and 379: the sleep that ends a tick; the clock has moved on by
\* the capture and the sleep
PollSleep ==
  /\ poll.pc = "sleep"
  /\ \E d \in CaptureTimes :
       poll' = [poll EXCEPT !.pc = "poll",
                            !.elapsed = @ + d + PollInterval(poll.fn)]
  /\ UNCHANGED << playback, desk, is_playing, screen_info, tracker >>

\* AutomationEngine.stop_playback, called while a wait is polling
stop_playback ==
  /\ poll.pc \in {"poll", "sleep"}
  /\ is_playing
  /\ is_playing' = FALSE
  /\ UNCHANGED << playback, desk, screen_info, tracker, poll >>

\* ------------------------------------------------------ display coordinates
\* _get_screen_info: the geometry of a display
Screen(x, y) == [x |-> x, y |-> y, width |-> 1920, height |-> 1080]

Origins == { Screen(0, 0), Screen(1920, 0), Screen(-1920, -100) }

\* An offset that is always the first display's.
ScreenOffsetPrimary(screens, screen_id) ==
  IF Len(screens) > 0 THEN screens[1] ELSE [x |-> 0, y |-> 0]

\* lines 188-193: the display's origin for a screen_id in range, else (0, 0)
ScreenOffset(screens, screen_id) ==
  IF 0 <= screen_id /\ screen_id < Len(screens)
    THEN screens[screen_id + 1]
    ELSE [x |-> 0, y |-> 0]

_get_absolute_coordinates(x, y, screen_id) ==
  LET off == ScreenOffset(screen_info, screen_id) IN << off.x + x, off.y + y >>

\* QSpinBox.setValue on a field with setRange(0, 9999)
SpinBoxSetValue(v) == IF v < 0 THEN 0 ELSE IF v > 9999 THEN 9999 ELSE v

\* pyautogui.position() when the position is taken over: a point of one of
\* the displays
Points == { << 100, 50 >>, << 2000, 50 >>, << -10, 900 >> }

OnDisplay(point, screen) ==
  /\ screen.x <= point[1] /\ point[1] < screen.x + screen.width
  /\ screen.y <= point[2] /\ point[2] < screen.y + screen.height

OnSomeDisplay(point, screens) ==
  screens = << >> \/ \E k \in DOMAIN screens : OnDisplay(point, screens[k])

Trackings ==
  { [pc |-> "tracking", global_pos |-> g, screen_id |-> id, x |-> x, y |-> 50,
     applied |-> FALSE, abs |-> << >>] :
      g \in Points, id \in (-1)..MaxScreens, x \in {-5, 100} }

\* ActionEditor.apply_tracked_position: the position relative to the display
\* chosen (absolute when there is no such display) goes into the x and y
\* fields
apply_tracked_position ==
  /\ tracker.pc = "tracking"
  /\ LET screens == screen_info
         id == tracker.screen_id
         rel == IF 0 <= id /\ id < Len(screens)
                  THEN << tracker.global_pos[1] - screens[id + 1].x,
                          tracker.global_pos[2] - screens[id + 1].y >>
                  ELSE tracker.global_pos
     IN tracker' = [tracker EXCEPT !.pc = "applied",
                                   !.applied = TRUE,
                                   !.x = SpinBoxSetValue(rel[1]),
                                   !.y = SpinBoxSetValue(rel[2])]
  /\ UNCHANGED << playback, desk, is_playing, screen_info, poll >>

\* _execute_action lines 201-207: the stored x, y and screen_id made absolute
ToAbsolute ==
  /\ tracker.pc \in {"tracking", "applied"}
  /\ tracker' = [tracker EXCEPT
                   !.pc = "converted",
                   !.abs = _get_absolute_coordinates(tracker.x, tracker.y,
                                                     tracker.screen_id)]
  /\ UNCHANGED << playback, desk, is_playing, screen_info, poll >>

\* ------------------------------------------------- what an action dispatches
\* dict.get(key, default)
Get(params, key, default) ==
  IF key \in DOMAIN params THEN params[key] ELSE default

\* One call of the input backend.
Call(fn, args) == [fn |-> fn, args |-> args]

\* d / 2 (every duration used here is an even number of ms)
Half(d) == d \div 2

\* line 256: params.get("duration", 0.1) / 2
DragMoveDuration(params) == Half(Get(params, "duration", 100))

\* line 261: params.get("duration", 0.5)
DragDuration(params) == Get(params, "duration", 500)

\* lines 242-246: the start of a drag; a start that is not given is (0, 0) of
\* the display
DragStart(params, screen_id) ==
  _get_absolute_coordinates(Get(params, "start_x", 0),
                            Get(params, "start_y", 0), screen_id)

\* lines 201-268: the calls of the input backend an action makes, in order,
\* when it gets through (none when _execute_action raises before a call)
Dispatch(a) ==
  LET p == a.params
      screen_id == Get(p, "screen_id", 0)
  IN IF _execute_action(a, "ok") # "ok" THEN << >>
     ELSE CASE a.action_type = "MOUSE_MOVE" ->
                 << Call("moveTo",
                         [at |-> _get_absolute_coordinates(p.x, p.y, screen_id),
                          duration |-> Get(p, "duration", 100)]) >>
            [] a.action_type = "MOUSE_CLICK" ->
                 << Call("click",
                         [at |-> _get_absolute_coordinates(p.x, p.y, screen_id),
                          button |-> Get(p, "button", "left"),
                          duration |-> Get(p, "duration", 100)]) >>
            [] a.action_type = "MOUSE_DOUBLE_CLICK" ->
                 << Call("doubleClick",
                         [at |-> _get_absolute_coordinates(p.x, p.y, screen_id),
                          button |-> Get(p, "button", "left"),
                          duration |-> Get(p, "duration", 100)]) >>
            [] a.action_type = "MOUSE_RIGHT_CLICK" ->
                 << Call("rightClick",
                         [at |-> _get_absolute_coordinates(p.x, p.y, screen_id),
                          duration |-> Get(p, "duration", 100)]) >>
            [] a.action_type = "MOUSE_DRAG" ->
                 << Call("moveTo",
                         [at |-> DragStart(p, screen_id),
                          duration |-> DragMoveDuration(p)]),
                    Call("dragTo",
                         [at |-> _get_absolute_coordinates(p.end_x, p.end_y,
                                                           screen_id),
                          button |-> Get(p, "button", "left"),
                          duration |-> DragDuration(p)]) >>
            [] a.action_type = "KEY_PRESS" ->
                 << Call("press", [keys |-> << p.key >>]) >>
            [] a.action_type = "KEY_COMBO" ->
                 << Call("hotkey", [keys |-> p.keys]) >>
            [] a.action_type = "WAIT" ->
                 << Call("sleep", [seconds |-> p.seconds]) >>
            [] OTHER -> << >>

\* The scenario's actions: move(x, y), click(x, y, button), wait(seconds)
move(x, y) == Action("MOUSE_MOVE", [x |-> x, y |-> y, duration |-> 100])

click(x, y, button) ==
  Action("MOUSE_CLICK", [x |-> x, y |-> y, button |-> button, duration |-> 100])

wait(ms) == Action("WAIT", [seconds |-> ms])

Scenario == << move(10, 10), click(10, 10, "left"), wait(500) >>

\* Drags as a workflow file can hold them: complete, on the second display,
\* without a duration, and without a start.
Drags ==
  { Action("MOUSE_DRAG", p) :
      p \in { [start_x |-> 20, start_y |-> 30, end_x |-> 100, end_y |-> 100,
               duration |-> 400],
              [start_x |-> 20, start_y |-> 30, end_x |-> 100, end_y |-> 100,
               duration |-> 400, screen_id |-> 1],
              [start_x |-> 20, start_y |-> 30, end_x |-> 100, end_y |-> 100],
              [end_x |-> 100, end_y |-> 100, duration |-> 400] } }

\* The scenario, its first two actions, and a move followed by a drag.
ScenarioWorkflows ==
  { Scenario, SubSeq(Scenario, 1, 2) }
  \cup { << move(10, 10), d >> : d \in Drags }

\* The arrangements of displays a desktop goes through.
Arrangements ==
  { << Screen(0, 0) >>,
    << Screen(0, 0), Screen(1920, 0) >>,
    << Screen(-1920, -100), Screen(0, 0) >> }

\* A display is plugged in, unplugged or moved (QApplication.screens()
\* changes); the engine is not told.
DisplayChange ==
  /\ displays = screen_info
  /\ displays' \in Arrangements \ {displays}
  /\ UNCHANGED << playback, is_playing, screen_info, tracker, poll, rec, ui >>

\* ------------------------------------------------------------ the recorder
MaxSamples == 3

min_move_distance == 10

\* in ms
min_move_interval == 200

\* Where pyautogui.position() finds the pointer: points 10 px, less and more
\* apart.
RecPoints == { << 0, 0 >>, << 6, 8 >>, << 8, 8 >>, << 30, 0 >> }

\* How much later than the read before it time.time() is read (ms): the
\* sleep of line 149 and what the thread was kept waiting.
SampleGaps == { 50, 200, 250 }

\* The square of _distance(pos1, pos2)
DistanceSquared(pos1, pos2) ==
  (pos1[1] - pos2[1]) * (pos1[1] - pos2[1])
  + (pos1[2] - pos2[2]) * (pos1[2] - pos2[2])

\* A recorder that takes a sample that is just at the thresholds.
WorthRecordingAtThreshold(pos, time, last_pos, last_time) ==
  /\ DistanceSquared(pos, last_pos) >= min_move_distance * min_move_distance
  /\ time - last_time >= min_move_interval

\* lines 135-136: far enough from the last recorded position (the distance is
\* compared through its square: the coordinates are integers) and long enough
\* after it
WorthRecording(pos, time, last_pos, last_time) ==
  /\ DistanceSquared(pos, last_pos) > min_move_distance * min_move_distance
  /\ time - last_time > min_move_interval

\* lines 116-119 and 139-142: the action a recorded position becomes
Recorded(pos) ==
  Action("MOUSE_MOVE", [x |-> pos[1], y |-> pos[2], duration |-> 100])

\* An emission as the history keeps it: the action, when its position was
\* read, and which emit made it.
Emission(pos, time, by) == [action |-> Recorded(pos), at |-> time, by |-> by]

PosOf(emission) == << emission.action.params.x, emission.action.params.y >>

\* A recorder that goes to its loop without recording where it starts.
RecStartSilent ==
  /\ rec.pc = "start"
  /\ \E pos \in RecPoints :
       rec' = [rec EXCEPT !.pc = "loop",
                          !.initial_mouse_pos = pos,
                          !.last_mouse_position = pos,
                          !.last_mouse_time = 0,
                          !.now = 0]
  /\ UNCHANGED << playback, is_playing, screen_info, tracker, poll, displays,
                  ui >>

\* RecordingThread.run, lines 111-120: the position at the start is kept and
\* emitted (the thread's clock starts at 0 here)
RecStart ==
  /\ rec.pc = "start"
  /\ \E pos \in RecPoints :
       rec' = [rec EXCEPT !.pc = "loop",
                          !.initial_mouse_pos = pos,
                          !.last_mouse_position = pos,
                          !.last_mouse_time = 0,
                          !.now = 0,
                          !.emitted = Append(@, Emission(pos, 0, "start"))]
  /\ UNCHANGED << playback, is_playing, screen_info, tracker, poll, displays,
                  ui >>

\* lines 122-149: one pass of the loop; it ends when running is cleared
RecLoop ==
  /\ rec.pc = "loop"
  /\ IF ~rec.running
       THEN rec' = [rec EXCEPT !.pc = "ended"]
       ELSE /\ Len(rec.sampled) < MaxSamples
            /\ \E pos \in RecPoints, gap \in SampleGaps :
                 LET time == rec.now + gap
                     take == WorthRecording(pos, time, rec.last_mouse_position,
                                            rec.last_mouse_time)
                 IN rec' =
                      [rec EXCEPT
                         !.now = time,
                         !.sampled = Append(@, [pos |-> pos, at |-> time]),
                         !.emitted = IF take
                                       THEN Append(@, Emission(pos, time, "sample"))
                                       ELSE @,
                         !.last_mouse_position = IF take THEN pos ELSE @,
                         !.last_mouse_time = IF take THEN time ELSE @]
  /\ UNCHANGED << playback, is_playing, screen_info, tracker, poll, displays,
                  ui >>

\* Where the main thread waits in RecordingThread.stop, for a
\* toggle_recording that returns to the event loop ("idle") or to
\* emergency_stop ("esc_play"), and where it goes on from there.
WaitFor(after) == IF after = "idle" THEN "rec_wait" ELSE "esc_rec_wait"

AfterWait(pc) == IF pc = "rec_wait" THEN "idle" ELSE "esc_play"

\* MainWindow.toggle_recording(checked), called with the toolbar as the caller
\* has left it.  Starting makes a new RecordingThread and disables play;
\* stopping clears engine.is_recording and, if there is a thread, calls its
\* stop(): running is cleared and the main thread waits for the thread to end
\* (RecordingStopped).  A pass of the recorder takes some 50 ms, so the second
\* that stop() waits is taken to be enough.
toggle_recording(checked, bar, after) ==
  IF checked
    THEN /\ rec' = Recorder(TRUE, TRUE, "start", TRUE)
         /\ ui' = [bar EXCEPT !.play = FALSE]
         /\ mpc' = after
    ELSE IF rec.ref
      THEN /\ rec' = [rec EXCEPT !.is_recording = FALSE, !.running = FALSE]
           /\ ui' = bar
           /\ mpc' = WaitFor(after)
      ELSE /\ rec' = [rec EXCEPT !.is_recording = FALSE]
           /\ ui' = [bar EXCEPT !.play = TRUE]
           /\ mpc' = after

\* The record action triggered: a checkable action passes its new check
RecordTriggered ==
  /\ mpc = "idle"
  /\ ui.record
  /\ toggle_recording(~ui.checked, [ui EXCEPT !.checked = ~ui.checked], "idle")
  /\ UNCHANGED << engineCfg, is_playing, tpc, idx, paused, pending, trace,
                  workflow_thread, since_pause, screen_info, tracker, poll,
                  displays >>

\* toggle_recording lines 392-397, once the thread has ended: the reference
\* is dropped and play is enabled
RecordingStopped ==
  /\ mpc \in {"rec_wait", "esc_rec_wait"}
  /\ rec.pc = "ended"
  /\ rec' = [rec EXCEPT !.ref = FALSE]
  /\ ui' = [ui EXCEPT !.play = TRUE]
  /\ mpc' = AfterWait(mpc)
  /\ UNCHANGED << engineCfg, is_playing, tpc, idx, paused, pending, trace,
                  workflow_thread, since_pause, screen_info, tracker, poll,
                  displays >>

\* MainWindow.on_action_recorded: the next emitted action, delivered to the
\* main thread, is added to the workflow
on_action_recorded ==
  /\ mpc = "idle"
  /\ rec.delivered < Len(rec.emitted)
  /\ workflow' = Append(workflow, rec.emitted[rec.delivered + 1].action)
  /\ rec' = [rec EXCEPT !.delivered = @ + 1]
  /\ UNCHANGED << loop_enabled, loop_pause, abort_key, is_playing, tpc, idx,
                  paused,
                  pending, trace, workflow_thread, mpc, since_pause,
                  screen_info, tracker, poll, displays, ui >>

\* -------------------------------------------------------- the main window
\* The play action triggered (an action that is disabled is not)
PlayTriggered == ui.play /\ MainPlay

\* The stop action triggered while there is a WorkflowThread: stop_workflow
StopTriggered == ui.stop /\ StopBegin

\* The recorder's steps when nothing is sampled: its start and its end.
RecExit == ~rec.running /\ RecLoop

\* MainWindow.emergency_stop (the Esc shortcut), lines 476-477: a recording
\* is stopped first
EmergencyStop ==
  /\ mpc = "idle"
  /\ IF rec.is_recording
       THEN toggle_recording(FALSE, ui, "esc_play")
       ELSE mpc' = "esc_play" /\ UNCHANGED << rec, ui >>
  /\ UNCHANGED << engineCfg, is_playing, tpc, idx, paused, pending, trace,
                  workflow_thread, since_pause, screen_info, tracker, poll,
                  displays >>

\* emergency_stop, lines 480-481: stop_workflow if the engine says it is
\* playing (without a WorkflowThread stop_workflow only resets the toolbar)
EmergencyPlayback ==
  /\ mpc = "esc_play"
  /\ IF is_playing /\ workflow_thread # 0
       THEN /\ is_playing' = FALSE
            /\ Log(workflow_thread,
                   Ev("stop_called", 0,
                      IF tpc[workflow_thread] = "waiting" THEN "blocked" ELSE ""))
            /\ mpc' = "stop_wake"
            /\ UNCHANGED ui
       ELSE /\ mpc' = "idle"
            /\ ui' = IF is_playing THEN ToolbarReset ELSE ui
            /\ UNCHANGED << is_playing, trace >>
  /\ UNCHANGED << backdrop, since_pause, engineCfg, tpc, idx, paused, pending,
                  workflow_thread >>

\* A finished signal of run t is waiting in the main thread's event queue.
FinishedQueued(t) ==
  /\ \E k \in DOMAIN trace[t] : trace[t][k].e = "finished"
  /\ \A k \in DOMAIN trace[t] : trace[t][k].e # "handled"

\* MainWindow.on_playback_finished, run for the finished signal of run t when
\* the main thread gets to it: the WorkflowThread the window holds now, if it
\* is running, is stopped (and the toolbar reset when the stop is through);
\* else the reference is dropped and the toolbar reset
on_playback_finished(t) ==
  /\ mpc = "idle"
  /\ FinishedQueued(t)
  /\ IF workflow_thread # 0 /\ ~Ended(workflow_thread)
       THEN /\ is_playing' = FALSE
            /\ trace' = [u \in Threads |->
                           trace[u]
                           \o (IF u = t THEN << Ev("handled", 0, "") >>
                                        ELSE << >>)
                           \o (IF u = workflow_thread
                                 THEN << Ev("stop_called", 0,
                                            IF tpc[u] = "waiting" THEN "blocked"
                                                                  ELSE "") >>
                                 ELSE << >>)]
            /\ mpc' = "stop_wake"
            /\ UNCHANGED << ui, workflow_thread >>
       ELSE /\ Log(t, Ev("handled", 0, ""))
            /\ workflow_thread' = 0
            /\ ui' = ToolbarReset
            /\ UNCHANGED << is_playing, mpc >>
  /\ UNCHANGED << backdrop, since_pause, engineCfg, tpc, idx, paused, pending >>

\* No run is between fetching action i and executing it with i >= from: a
\* change of the workflow from index `from` on leaves what such a run holds.
NoneFetched(from) ==
  \A t \in Threads : tpc[t] = "exec" => idx[t] < from

\* No run is inside its for loop: clear_workflow binds engine.workflow to a
\* new list, and a run that is going through the old one goes on with it to
\* the end of its pass.
NoneIterating ==
  \A t \in Threads :
    tpc[t] \notin {"for", "exec", "callback", "lock", "waiting", "abort"}

\* MainWindow.new_workflow, lines 240-244, with the dialog confirmed:
\* engine.clear_workflow(), whatever the engine is doing.  (Left out while a
\* run is inside a pass.)
new_workflow ==
  /\ mpc = "idle"
  /\ workflow # << >>
  /\ NoneIterating
  /\ workflow' = << >>
  /\ UNCHANGED << loop_enabled, loop_pause, abort_key, is_playing, tpc, idx,
                  paused, pending, trace, workflow_thread, mpc, since_pause,
                  screen_info, tracker, poll, displays, rec, ui >>

\* WorkflowTab.add_action (at the end), remove_selected_action and
\* MainWindow.new_workflow, with every dialog confirmed.  None of them looks
\* at engine.is_playing or at the WorkflowThread.  (A removal of the action a
\* run has fetched and not yet executed is left out: the run goes on with the
\* action it holds.)
EditWorkflow ==
  /\ mpc = "idle"
  /\ \/ /\ Len(workflow) < MaxLen
        /\ \E k \in {"MOUSE_MOVE", "WAIT"} :
             workflow' = Append(workflow, Action(k, get_default_params(k)))
     \/ \E i \in DOMAIN workflow :
          /\ NoneFetched(i - 1)
          /\ workflow' = SubSeq(workflow, 1, i - 1)
                         \o SubSeq(workflow, i + 1, Len(workflow))
     \/ /\ workflow # << >>
        /\ NoneIterating
        /\ workflow' = << >>
  /\ UNCHANGED << loop_enabled, loop_pause, abort_key, is_playing, tpc, idx,
                  paused,
                  pending, trace, workflow_thread, mpc, since_pause,
                  screen_info, tracker, poll, displays, rec, ui >>

\* ------------------------------------------------------------ workflow files
\* models.py lines 12-21: the value of each member, which is what a file holds
ActionValue(action_type) ==
  CASE action_type = "MOUSE_MOVE" -> "Mausbewegung"
    [] action_type = "MOUSE_CLICK" -> "Mausklick"
    [] action_type = "MOUSE_DOUBLE_CLICK" -> "Doppelklick"
    [] action_type = "MOUSE_RIGHT_CLICK" -> "Rechtsklick"
    [] action_type = "MOUSE_DRAG" -> "Maus ziehen"
    [] action_type = "KEY_PRESS" -> "Taste drücken"
    [] action_type = "KEY_COMBO" -> "Tastenkombination"
    [] action_type = "WAIT" -> "Warten"
    [] action_type = "WAIT_FOR_COLOR" -> "Auf Farbe warten"
    [] OTHER -> "Auf Text warten"

\* Action.to_dict
to_dict(a) == [type |-> ActionValue(a.action_type), params |-> a.params]

\* What a call gives back: a value, or the exception it raises.
Ok(v) == [ok |-> TRUE, v |-> v]

Err(exc) == [ok |-> FALSE, v |-> exc]

\* Action.from_dict, line 48: data["type"], then next() over the members
\* whose value it is (StopIteration when there is none); line 49:
\* data["params"]
from_dict(data) ==
  IF "type" \notin DOMAIN data THEN Err("KeyError")
  ELSE IF \A t \in ActionType : ActionValue(t) # data.type
    THEN Err("StopIteration")
  ELSE IF "params" \notin DOMAIN data THEN Err("KeyError")
  ELSE Ok(Action(CHOOSE t \in ActionType : ActionValue(t) = data.type,
                 data.params))

\* A call of from_dict or load_workflow: its argument, and what came of it.
Request(fn, args) ==
  [pc |-> "call", fn |-> fn, args |-> args, result |-> "none", value |-> << >>]

Returned(value) ==
  [poll EXCEPT !.pc = "returned", !.result = "value", !.value = value]

Raised(exc) == [poll EXCEPT !.pc = "raised", !.result = exc]

\* The kinds of the action model: the members of ActionType, and text write,
\* which _execute_action (line 270) and the editor name as
\* ActionType.TEXT_WRITE.
ActionKind == ActionType \cup {"TEXT_WRITE"}

\* The type a saved text-write action may carry; ActionType has no member for
\* it, so whatever it is, it is the value of none.
TextWriteNames == {"Text schreiben", "TEXT_WRITE"}

\* from_dict called on an action of each kind as saved, on actions of no
\* kind, and on one without its type: kind says what the data is meant to be.
FromDictCalls ==
  { Request("from_dict",
            [kind |-> k, data |-> to_dict(Action(k, get_default_params(k)))]) :
      k \in ActionType }
  \cup { Request("from_dict",
                 [kind |-> "TEXT_WRITE",
                  data |-> [type |-> n,
                            params |-> [text |-> "hi", interval |-> 0]]]) :
           n \in TextWriteNames }
  \cup { Request("from_dict",
                 [kind |-> "none",
                  data |-> [type |-> n, params |-> [x |-> 0, y |-> 0]]]) :
           n \in {"Unbekannt", "MOUSE_MOVE", "mausbewegung"} }
  \cup { Request("from_dict",
                 [kind |-> "none", data |-> [params |-> [x |-> 0, y |-> 0]]]) }

FromDict ==
  /\ poll.pc = "call"
  /\ poll.fn = "from_dict"
  /\ LET r == from_dict(poll.args.data) IN
       poll' = IF r.ok THEN Returned(r.v) ELSE Raised(r.v)
  /\ UNCHANGED << playback, desk, is_playing, screen_info, tracker >>

\* The actions a file holds: saved ones, one of an unknown type, one without
\* its params.
SavedActions ==
  { to_dict(a) : a \in ControlActions }
  \cup { [type |-> "Unbekannt", params |-> [x |-> 0, y |-> 0]],
         [type |-> "Mausbewegung"] }

\* The settings block of a file: complete, partial, and with none of the keys
\* load_workflow reads.
SavedSettings ==
  { [loop_enabled |-> TRUE, loop_pause |-> 2000, abort_key |-> "f12"],
    [loop_enabled |-> TRUE],
    [note |-> ""] }

\* json.load(f): files with and without settings, and one without actions.
Files ==
  { [version |-> "1.0", actions |-> s] :
      s \in SeqsUpTo(SavedActions, MaxLen) \cup { << >> } }
  \cup { [version |-> "1.0", settings |-> st, actions |-> s] :
           st \in SavedSettings,
           s \in SeqsUpTo(SavedActions, MaxLen) \cup { << >> } }
  \cup { [version |-> "1.0", settings |-> st] : st \in SavedSettings }

LoadCalls == { Request("load_workflow", [data |-> d]) : d \in Files }

\* line 116: the list comprehension, which ends at the first from_dict that
\* raises (data["actions"] itself may be missing)
LoadActions(data) ==
  IF "actions" \notin DOMAIN data THEN Err("KeyError")
  ELSE LET rs == [k \in DOMAIN data.actions |-> from_dict(data.actions[k])]
           bad == { k \in DOMAIN rs : ~rs[k].ok }
       IN IF bad = {} THEN Ok([k \in DOMAIN rs |-> rs[k].v])
          ELSE Err(rs[CHOOSE k \in bad : \A j \in bad : k <= j].v)

\* AutomationEngine.load_workflow, lines 109-117: the settings are assigned
\* first, each read with its default, then the actions are converted and
\* assigned
load_workflow ==
  /\ poll.pc = "call"
  /\ poll.fn = "load_workflow"
  /\ LET data == poll.args.data
         r == LoadActions(data)
     IN /\ IF "settings" \in DOMAIN data
             THEN /\ loop_enabled' = Get(data.settings, "loop_enabled", FALSE)
                  /\ loop_pause' = Get(data.settings, "loop_pause", 1000)
                  /\ abort_key' = Get(data.settings, "abort_key", "esc")
             ELSE UNCHANGED << loop_enabled, loop_pause, abort_key >>
        /\ IF r.ok
             THEN workflow' = r.v /\ poll' = Returned(Len(r.v))
             ELSE UNCHANGED workflow /\ poll' = Raised(r.v)
  /\ UNCHANGED << is_playing, tpc, idx, paused, pending, trace,
                  workflow_thread, mpc, since_pause, screen_info, tracker,
                  desk >>

\* ------------------------------------------------------ searching the screen
MaxPainted == 2

\* A display of the given size (find_color_on_screen and find_text_on_screen
\* read x, y, width and height of a screen_info entry).
Display(x, y, width, height) ==
  [x |-> x, y |-> y, width |-> width, height |-> height]

\* What ImageGrab.grab gives for a display: the pixels that are not black,
\* or an exception (ok = FALSE).
Shot(paint) == [ok |-> TRUE, paint |-> paint]

NoShot == [ok |-> FALSE, paint |-> << >>]

getpixel(shot, x, y) ==
  IF << x, y >> \in DOMAIN shot.paint THEN shot.paint[<< x, y >>]
                                     ELSE << 0, 0, 0 >>

\* range(0, stop, step), for a step that is not 0
range(stop, step) == { k \in 0..(stop - 1) : k % step = 0 }

\* The first of a set of positions in the order of the two nested loops (x
\* outside, y inside).
ScanFirst(S) ==
  CHOOSE p \in S :
    \A q \in S : p[1] < q[1] \/ (p[1] = q[1] /\ p[2] <= q[2])

\* lines 444-452: the positions looked at in steps of 5 whose pixel is within
\* the tolerance
CoarseHits(shot, screen, target_color, tolerance) ==
  { p \in range(screen.width, 5) \X range(screen.height, 5) :
      ColorMatches(getpixel(shot, p[1], p[2]), target_color, tolerance) }

\* A second look that takes the first position around the hit as it is.
FineHitsUnchecked(shot, screen, p, target_color, tolerance) ==
  { q \in ((p[1] - 5)..(p[1] + 5)) \X ((p[2] - 5)..(p[2] + 5)) :
      /\ 0 <= q[1] /\ q[1] < screen.width
      /\ 0 <= q[2] /\ q[2] < screen.height }

\* lines 454-461: the positions up to 5 away from the hit, on the display,
\* whose pixel is within the tolerance
FineHits(shot, screen, p, target_color, tolerance) ==
  { q \in ((p[1] - 5)..(p[1] + 5)) \X ((p[2] - 5)..(p[2] + 5)) :
      /\ 0 <= q[1] /\ q[1] < screen.width
      /\ 0 <= q[2] /\ q[2] < screen.height
      /\ ColorMatches(getpixel(shot, q[1], q[2]), target_color, tolerance) }

\* lines 444-463 for one display: the position returned, << >> when the
\* loops end without a return
SearchDisplay(shot, screen, target_color, tolerance) ==
  LET coarse == CoarseHits(shot, screen, target_color, tolerance) IN
    IF coarse = {} THEN << >>
    ELSE LET fine == FineHits(shot, screen, ScanFirst(coarse), target_color,
                              tolerance)
         IN IF fine = {} THEN << >> ELSE ScanFirst(fine)

\* No display given: screen_id None (any screen_id outside the list is
\* treated the same, lines 424-429).
AllDisplays == -1

\* lines 422-429: the displays searched, as positions in screen_info
screens_to_search(screen_id) ==
  IF screen_id # AllDisplays /\ 0 <= screen_id /\ screen_id < Len(screen_info)
    THEN << screen_id + 1 >>
    ELSE [k \in 1..Len(screen_info) |-> k]

\* lines 431-468: display after display; a capture that raises ends the
\* search in the except, which prints, and None (<< >>) is returned
RECURSIVE SearchFrom(_, _, _, _, _)
SearchFrom(k, searched, shots, target_color, tolerance) ==
  IF k > Len(searched) THEN << >>
  ELSE IF ~shots[searched[k]].ok THEN << >>
  ELSE LET r == SearchDisplay(shots[searched[k]], screen_info[searched[k]],
                              target_color, tolerance)
       IN IF r # << >> THEN r
          ELSE SearchFrom(k + 1, searched, shots, target_color, tolerance)

find_color_on_screen(target_color, screen_id, tolerance, shots) ==
  SearchFrom(1, screens_to_search(screen_id), shots, target_color, tolerance)

\* The display searched, and a small one to its left that comes first in
\* screen_info when it is there.
SearchedDisplay == Display(0, 0, 6, 6)

SmallDisplay == Display(-1, 0, 1, 1)

Positions(screen) == (0..(screen.width - 1)) \X (0..(screen.height - 1))

\* Pure red, a pixel 10 away from it in every channel, and one 11 away in
\* one.
PaintColors == { << 255, 0, 0 >>, << 245, 10, 10 >>, << 255, 0, 11 >> }

\* Where a capture may have a pixel that is not black: on and off the grid
\* of every fifth pixel, inside and on the edges of the display searched.
Spots == {0, 3, 5} \X {0, 3, 5}

\* Every capture with up to MaxPainted such pixels.
Shots ==
  { Shot(paint) :
      paint \in UNION { [P -> PaintColors] :
                          P \in UNION { { { f[i] : i \in 1..n } :
                                            f \in [1..n -> Spots] } :
                                        n \in 0..MaxPainted } } }

\* The small display's capture: black, one pixel to find, or an exception.
SmallShots ==
  { Shot(<< >>), Shot([p \in { << 0, 0 >> } |-> << 245, 10, 10 >>]), NoShot }

\* The displays a call's captures are of.
Arrangement(shots) ==
  IF Len(shots) = 1 THEN << SearchedDisplay >>
                    ELSE << SmallDisplay, SearchedDisplay >>

\* The calls: the display alone, and after the small one.
FindColorCalls ==
  { Request("find_color_on_screen",
            [target_color |-> << 255, 0, 0 >>, screen_id |-> id,
             tolerance |-> tol, shots |-> shots]) :
      id \in {AllDisplays, 1}, tol \in {0, 10},
      shots \in { << s >> : s \in Shots }
                \cup { << first, s >> :
                         first \in SmallShots,
                         s \in Shots } }

FindColor ==
  /\ poll.pc = "call"
  /\ poll.fn = "find_color_on_screen"
  /\ poll' = Returned(find_color_on_screen(poll.args.target_color,
                                           poll.args.screen_id,
                                           poll.args.tolerance,
                                           poll.args.shots))
  /\ UNCHANGED << playback, desk, is_playing, screen_info, tracker >>

\* ------------------------------------------------------------ text search
MaxSide == 7

\* find_text_on_screen, lines 522-529: the sub-regions the loops go through
\* when the text is in none of them; range() raises ValueError for a step of
\* 0, before anything is captured
Cells(screen) ==
  LET region_width == screen.width \div 3
      region_height == screen.height \div 3
  IN IF region_width = 0 \/ region_height = 0 THEN Err("ValueError")
     ELSE Ok({ [x |-> x, y |-> y,
                actual_width |-> Min(region_width, screen.width - x),
                actual_height |-> Min(region_height, screen.height - y)] :
                 x \in range(screen.width, region_width),
                 y \in range(screen.height, region_height) })

FindTextCalls ==
  { Request("find_text_on_screen",
            [text |-> << "O", "K" >>, screen_id |-> AllDisplays]) }

\* find_text_on_screen on one display that does not show the text: every
\* sub-region is captured and read, and None is returned; an exception is
\* caught and printed (lines 561-562), and None is returned as well
FindText ==
  /\ poll.pc = "call"
  /\ poll.fn = "find_text_on_screen"
  /\ LET r == Cells(screen_info[1]) IN
       poll' = [poll EXCEPT
                  !.pc = "returned",
                  !.result = "None",
                  !.value = IF r.ok THEN [caught |-> "none", cells |-> r.v]
                                    ELSE [caught |-> r.v, cells |-> {}]]
  /\ UNCHANGED << playback, desk, is_playing, screen_info, tracker >>

\* ----------------------------------------------------------- specifications
Next ==
  \/ MainPlay
  \/ Pause
  \/ Resume
  \/ StopBegin
  \/ StopWake
  \/ StopWait
  \/ \E t \in Threads : Worker(t)

\* Every interleaving of the main thread's requests with the runs.  The
\* properties below are stated for the narrower specifications that follow,
\* each of which keeps the requests its property is about.
Spec == Init /\ [][Next]_vars

\* One run, started once, with pause and resume but no stop and no second start.
FirstPlay == (\A t \in Threads : tpc[t] = "new") /\ MainPlay

NextRun ==
  \/ FirstPlay
  \/ Pause
  \/ Resume
  \/ \E t \in Threads : Worker(t)

SpecRun == InitRun /\ [][NextRun]_vars

\* One run with every control: pause, resume and stop, but no second start.
NextStop ==
  \/ FirstPlay
  \/ Pause
  \/ Resume
  \/ StopBegin
  \/ StopWake
  \/ StopWait
  \/ \E t \in Threads : Worker(t)

SpecStop == Init /\ [][NextStop]_vars

\* The same, with the scheduling the code relies on: a run thread that can
\* take a step is given the processor, and a stop() that has cleared the flag
\* goes on to its wakeAll.  Nothing is assumed about the grace period.
FairStop == (\A t \in Threads : WF_vars(Worker(t))) /\ WF_vars(StopWake)

SpecStopFair == SpecStop /\ FairStop

\* Starts only: a first start, and every further start request that the main
\* window accepts while a run has not ended.
PlayWhileActive == (\E t \in Threads : tpc[t] # "new" /\ ~Ended(t)) /\ MainPlay

NextStart ==
  \/ FirstPlay
  \/ PlayWhileActive
  \/ \E t \in Threads : Worker(t)

SpecStart == Init /\ [][NextStart]_vars

\* No run: what the specifications of the pure parts start from.
AtRest ==
  /\ workflow = << >>
  /\ loop_enabled = FALSE
  /\ loop_pause = 0
  /\ abort_key = "esc"
  /\ tpc = [t \in Threads |-> "new"]
  /\ idx = [t \in Threads |-> 0]
  /\ paused = [t \in Threads |-> FALSE]
  /\ pending = [t \in Threads |-> "none"]
  /\ trace = [t \in Threads |-> << >>]
  /\ workflow_thread = 0
  /\ mpc = "idle"
  /\ since_pause = [t \in Threads |-> 0]

\* One perceptual wait, called while the engine is playing, with
\* stop_playback at any moment of it.
InitWait ==
  /\ AtRest
  /\ is_playing = TRUE
  /\ screen_info = << >>
  /\ tracker = NoTracker
  /\ DeskAtStart
  /\ \/ poll \in ColorCalls
     \/ poll \in TextCalls
     \/ poll \in ExecuteCalls

NextWait ==
  \/ WaitForColorStart
  \/ WaitForTextStart
  \/ ExecuteWaitForText
  \/ ColorTick
  \/ TextTick
  \/ PollSleep
  \/ stop_playback

SpecWait == InitWait /\ [][NextWait]_vars

\* The same, with a wait that is given the processor.
Polling ==
  \/ WaitForColorStart \/ WaitForTextStart \/ ExecuteWaitForText
  \/ ColorTick \/ TextTick \/ PollSleep

SpecWaitFair == SpecWait /\ WF_vars(Polling)

\* One position taken over in the editor and made absolute again, on every
\* arrangement of up to MaxScreens displays.
InitCoords ==
  /\ AtRest
  /\ is_playing = FALSE
  /\ screen_info \in SeqsUpTo(Origins, MaxScreens) \cup { << >> }
  /\ tracker \in Trackings
  /\ OnSomeDisplay(tracker.global_pos, screen_info)
  /\ poll = NoPoll
  /\ DeskAtStart

NextCoords ==
  \/ apply_tracked_position
  \/ ToAbsolute

SpecCoords == InitCoords /\ [][NextCoords]_vars

\* One run of the scenario workflows on one or two displays, which may change
\* once at any moment before or during the run.
InitScenario ==
  /\ workflow \in ScenarioWorkflows
  /\ loop_enabled \in BOOLEAN
  /\ loop_pause \in LoopPauses
  /\ abort_key = "esc"
  /\ is_playing = FALSE
  /\ tpc = [t \in Threads |-> "new"]
  /\ idx = [t \in Threads |-> 0]
  /\ paused = [t \in Threads |-> FALSE]
  /\ pending = [t \in Threads |-> "none"]
  /\ trace = [t \in Threads |-> << >>]
  /\ workflow_thread = 0
  /\ mpc = "idle"
  /\ since_pause = [t \in Threads |-> 0]
  /\ screen_info \in { << Screen(0, 0) >>, << Screen(0, 0), Screen(1920, 0) >> }
  /\ tracker = NoTracker
  /\ poll = NoPoll
  /\ DeskAtStart

NextScenario ==
  \/ FirstPlay
  \/ DisplayChange
  \/ \E t \in Threads : Worker(t)

SpecScenario == InitScenario /\ [][NextScenario]_vars

\* One recording: started from the toolbar, sampled up to MaxSamples times,
\* stopped from the toolbar at any moment, its actions delivered.  (Every
\* recording has a RecordingThread of its own, so a later one does the same.)
InitRec ==
  /\ AtRest
  /\ is_playing = FALSE
  /\ screen_info = << Screen(0, 0) >>
  /\ tracker = NoTracker
  /\ poll = NoPoll
  /\ DeskAtStart

FirstRecording == rec.pc = "none" /\ RecordTriggered

EndRecording == rec.ref /\ RecordTriggered

NextRec ==
  \/ FirstRecording
  \/ EndRecording
  \/ RecStart
  \/ RecLoop
  \/ RecordingStopped
  \/ on_action_recorded

SpecRec == InitRec /\ [][NextRec]_vars

\* A run's steps when it does not loop.
WorkerOnce(t) ==
  \/ Enter(t) \/ SetPlaying(t) \/ WhileCheck(t) \/ ForNext(t) \/ Exec(t)
  \/ Callback(t) \/ PauseCheck(t) \/ AbortCheck(t) \/ AfterPass(t)
  \/ PwFinally(t) \/ RunFinally(t)

\* The main window: the toolbar's record, play and stop, the Esc shortcut,
\* the finished signals as the event loop gets to them, and runs of a
\* workflow of one action without looping.  The recorder only starts and
\* ends.
InitWindow ==
  /\ workflow = << Action("MOUSE_MOVE", get_default_params("MOUSE_MOVE")) >>
  /\ loop_enabled = FALSE
  /\ loop_pause = 0
  /\ abort_key = "esc"
  /\ is_playing = FALSE
  /\ tpc = [t \in Threads |-> "new"]
  /\ idx = [t \in Threads |-> 0]
  /\ paused = [t \in Threads |-> FALSE]
  /\ pending = [t \in Threads |-> "none"]
  /\ trace = [t \in Threads |-> << >>]
  /\ workflow_thread = 0
  /\ mpc = "idle"
  /\ since_pause = [t \in Threads |-> 0]
  /\ screen_info = << Screen(0, 0) >>
  /\ tracker = NoTracker
  /\ poll = NoPoll
  /\ DeskAtStart

NextWindow ==
  \/ RecordTriggered
  \/ RecordingStopped
  \/ RecStart
  \/ RecExit
  \/ PlayTriggered
  \/ StopTriggered
  \/ StopWake
  \/ StopWait
  \/ EmergencyStop
  \/ EmergencyPlayback
  \/ \E t \in Threads : on_playback_finished(t)
  \/ \E t \in Threads : WorkerOnce(t)

SpecWindow == InitWindow /\ [][NextWindow]_vars

\* One run, and the edits of the workflow the window offers meanwhile.
NextEdit ==
  \/ FirstPlay
  \/ EditWorkflow
  \/ \E t \in Threads : WorkerOnce(t)

SpecEdit == InitWindow /\ [][NextEdit]_vars

\* One call of Action.from_dict or of load_workflow, on an engine that holds
\* a workflow and settings from before.
InitLoad ==
  /\ workflow \in { << >>, << Action("KEY_PRESS", get_default_params("KEY_PRESS")) >> }
  /\ loop_enabled \in BOOLEAN
  /\ loop_pause \in LoopPauses
  /\ abort_key \in {"esc", "f12"}
  /\ is_playing = FALSE
  /\ tpc = [t \in Threads |-> "new"]
  /\ idx = [t \in Threads |-> 0]
  /\ paused = [t \in Threads |-> FALSE]
  /\ pending = [t \in Threads |-> "none"]
  /\ trace = [t \in Threads |-> << >>]
  /\ workflow_thread = 0
  /\ mpc = "idle"
  /\ since_pause = [t \in Threads |-> 0]
  /\ screen_info = << >>
  /\ tracker = NoTracker
  /\ DeskAtStart
  /\ \/ poll \in FromDictCalls
     \/ poll \in LoadCalls

NextLoad ==
  \/ FromDict
  \/ load_workflow

SpecLoad == InitLoad /\ [][NextLoad]_vars

\* One search of the screen: for a colour, on every capture with up to
\* MaxPainted pixels that are not black, or for a text that is not there, on
\* a display of every size up to MaxSide.
InitFind ==
  /\ AtRest
  /\ is_playing = FALSE
  /\ tracker = NoTracker
  /\ \/ /\ poll \in FindColorCalls
        /\ screen_info = Arrangement(poll.args.shots)
     \/ /\ poll \in FindTextCalls
        /\ \E w, h \in 1..MaxSide : screen_info = << Display(0, 0, w, h) >>
  /\ DeskAtStart

NextFind ==
  \/ FindColor
  \/ FindText

SpecFind == InitFind /\ [][NextFind]_vars

\* new_workflow while no run is inside play_workflow: before the run thread
\* has got to line 126, or after the run.  (Emptied later, a looping run goes
\* on with passes over nothing.)
ClearOutsideRun ==
  (\A t \in Threads : tpc[t] \in {"new", "enter"} \/ Ended(t)) /\ new_workflow

\* One run, and new_workflow between the start of the run thread and its
\* entry into play_workflow, or after the run.
NextEmpty ==
  \/ FirstPlay
  \/ ClearOutsideRun
  \/ \E t \in Threads : Worker(t)

SpecEmpty == Init /\ [][NextEmpty]_vars

\* One run during which no query of the abort key succeeds.
NextKeyFails ==
  \/ FirstPlay
  \/ \E t \in Threads : WorkerKeyFails(t)

SpecKeyFails == Init /\ [][NextKeyFails]_vars

\* The arrangements on which the pointer can be at each of the points the
\* recorder reads: the display at (0, 0) alone, mirrored, or next to another
\* display that may come first, and no display reported at all.
RecArrangements ==
  { screens \in SeqsUpTo(Origins, MaxScreens) \cup { << >> } :
      \A pos \in RecPoints : OnSomeDisplay(pos, screens) }

\* One recording of where the pointer is, and then one run of what was
\* recorded, on the same displays.
InitRoundTrip ==
  /\ workflow = << >>
  /\ loop_enabled = FALSE
  /\ loop_pause = 0
  /\ abort_key = "esc"
  /\ is_playing = FALSE
  /\ tpc = [t \in Threads |-> "new"]
  /\ idx = [t \in Threads |-> 0]
  /\ paused = [t \in Threads |-> FALSE]
  /\ pending = [t \in Threads |-> "none"]
  /\ trace = [t \in Threads |-> << >>]
  /\ workflow_thread = 0
  /\ mpc = "idle"
  /\ since_pause = [t \in Threads |-> 0]
  /\ screen_info \in RecArrangements
  /\ tracker = NoTracker
  /\ poll = NoPoll
  /\ DeskAtStart

NextRoundTrip ==
  \/ FirstRecording
  \/ EndRecording
  \/ RecStart
  \/ RecExit
  \/ RecordingStopped
  \/ on_action_recorded
  \/ PlayTriggered
  \/ \E t \in Threads : WorkerOnce(t)

SpecRoundTrip == InitRoundTrip /\ [][NextRoundTrip]_vars

\* ------------------------------------------------------- reading a history
Has(t, e) == \E k \in DOMAIN trace[t] : trace[t][k].e = e

HasHeld(t) ==
  \E k \in DOMAIN trace[t] :
    trace[t][k].e \in {"key", "key2"} /\ trace[t][k].v = "held"

Indices(s) == [k \in DOMAIN s |-> s[k].i]

\* The indices of the actions executed, of those attempted, and of the callbacks
Executed(t) == Indices(SelectEv(trace[t], {"exec"}))

Attempted(t) == Indices(SelectEv(trace[t], {"exec", "raise"}))

Callbacks(t) == Indices(SelectEv(trace[t], {"cb"}))

\* What the run itself did: actions, callbacks and key checks, in order
Steps(t) == SelectEv(trace[t], {"exec", "raise", "cb", "key", "key2"})

UpTo(n) == [k \in 1..n |-> k - 1]

\* s is a prefix of 0,1,...,n-1 repeated
IsCycle(s, n) == \A k \in DOMAIN s : s[k] = (k - 1) % n

AllValid == \A k \in DOMAIN workflow : ValidParams(workflow[k])

BackendFailed(t) ==
  \E k \in DOMAIN trace[t] :
    trace[t][k].e = "raise"
    /\ trace[t][k].v \in BackendOutcomes \ {"ok"}

\* ------------------------------------------------------------------ claims

\* C1: without looping, abort key, stop or failing backend call, a run over a
\* workflow of valid actions of any kinds invokes the callback once per
\* action, with the indices 0..len-1 in order, each right after its action,
\* and ends.  (Stated as claimed; the wait kinds break it.)
C1_CallbackPerAction ==
  \A t \in Threads :
    ( /\ tpc[t] = "done"
      /\ Has(t, "play")
      /\ ~loop_enabled
      /\ AllValid
      /\ ~HasHeld(t)
      /\ ~BackendFailed(t) )
    => /\ Callbacks(t) = UpTo(Len(workflow))
       /\ Executed(t) = UpTo(Len(workflow))

\* C2: with looping, no failure, no abort key and no stop, the callback
\* indices are a prefix of 0..n-1 repeated and the run does not end.
C2_LoopRepeats ==
  \A t \in Threads :
    (loop_enabled /\ Has(t, "play") /\ ~Has(t, "raise") /\ ~HasHeld(t))
    => /\ IsCycle(Callbacks(t), Len(workflow))
       /\ IsCycle(Executed(t), Len(workflow))
       /\ tpc[t] \notin {"pw_finally", "run_finally", "done"}

\* C2's case: a looping run of two actions that has started its second pass.
C2_Wrapped ==
  \E t \in Threads :
    /\ loop_enabled /\ ~Has(t, "raise") /\ ~HasHeld(t)
    /\ Len(workflow) = 2
    /\ Callbacks(t) = << 0, 1, 0 >>

\* C3: once stop() has returned, the run it stopped executes no further
\* action and fires no further callback, wherever the run was when stop()
\* was called.
C3_NothingAfterStop ==
  \A t \in Threads :
    \A k \in DOMAIN trace[t] :
      trace[t][k].e = "stop_returned"
      => \A j \in DOMAIN trace[t] :
           j > k => trace[t][j].e \notin {"exec", "raise", "cb"}

\* C3's case: stop() has returned for a looping run that had fired a callback
\* and blocked in the pause wait.
C3_StoppedWhilePaused ==
  \E t \in Threads :
    /\ loop_enabled
    /\ Has(t, "stop_returned")
    /\ Has(t, "pausewait")
    /\ Len(Callbacks(t)) >= 1

\* C4: whatever pause() and resume() calls interleave with a run, it executes
\* the indices an unpaused run executes: the executed and the callback indices
\* are a prefix of 0..n-1 (repeated when looping), none skipped and none
\* repeated, and a run that ends without failure or abort has done all n.
C4_PauseKeepsSequence ==
  \A t \in Threads :
    /\ IsCycle(Attempted(t), Len(workflow))
    /\ IsCycle(Callbacks(t), Len(workflow))
    /\ Len(Executed(t)) - Len(Callbacks(t)) \in {0, 1}
    /\ (tpc[t] = "done" /\ Has(t, "play") /\ ~Has(t, "raise") /\ ~HasHeld(t))
       => Callbacks(t) = UpTo(Len(workflow))

\* C4's case: a run of two actions that blocked in the pause wait, was
\* resumed and ran to its end.
C4_PausedAndCompleted ==
  \E t \in Threads :
    /\ tpc[t] = "done"
    /\ Has(t, "pausewait")
    /\ Callbacks(t) = << 0, 1 >>

\* C5: a run in which an action raised reports the failure through
\* error_occurred exactly once, before finished.  (Stated as claimed.)
C5_ErrorReportedOnce ==
  \A t \in Threads :
    (tpc[t] = "done" /\ Has(t, "raise"))
    => /\ Len(SelectEv(trace[t], {"error"})) = 1
       /\ \A j, k \in DOMAIN trace[t] :
            (trace[t][j].e = "error" /\ trace[t][k].e = "finished") => j < k

\* C6: once an action has raised, the run executes no further action and
\* fires no further callback (none for the failed index either), with or
\* without looping, and it is on its way out.
C6_NothingAfterFailure ==
  \A t \in Threads :
    \A k \in DOMAIN trace[t] :
      trace[t][k].e = "raise"
      => /\ \A j \in DOMAIN trace[t] :
              j > k => trace[t][j].e \notin {"exec", "raise", "cb", "key", "key2"}
         /\ Len(Callbacks(t)) = Len(Executed(t))
         /\ tpc[t] \in {"pw_finally", "run_finally", "done"}

\* C6's case: a looping run whose second action raised, after it has ended.
C6_FailedSecondAction ==
  \E t \in Threads :
    /\ loop_enabled
    /\ tpc[t] = "done"
    /\ \E k \in DOMAIN trace[t] : trace[t][k].e = "raise" /\ trace[t][k].i = 1

\* C7: when every run has ended, whatever ended it, the engine's is_playing
\* is false, so that the next start is accepted.  (Stated as claimed.)
C7_IdleAfterRun ==
  ( /\ mpc = "idle"
    /\ \E t \in Threads : tpc[t] # "new"
    /\ \A t \in Threads : tpc[t] = "new" \/ Ended(t) )
  => ~is_playing

\* C8: a start while a run is active is a no-op: no second pass begins, the
\* active run keeps its is_playing flag while it is in its pass, and it
\* fires every callback it would have fired.  (Stated as claimed.)
C8_SecondStartNoOp ==
  /\ Cardinality({t \in Threads : Has(t, "play")}) <= 1
  /\ \A t \in Threads :
       tpc[t] \in {"while", "for", "exec", "callback", "lock", "waiting", "abort"}
       => is_playing
  /\ \A t \in Threads :
       ( /\ tpc[t] = "done" /\ Has(t, "play") /\ ~loop_enabled
         /\ ~Has(t, "raise") /\ ~HasHeld(t) )
       => Callbacks(t) = UpTo(Len(workflow))

\* C9: each action is followed by its callback and the callback by the check
\* of the abort key; after a check that found the key held the run executes
\* nothing and fires nothing more, with or without looping, and is past its
\* loop.
C9_AbortAfterCallback ==
  \A t \in Threads :
    LET s == Steps(t) IN
      \A k \in DOMAIN s :
        /\ s[k].e = "cb" => k > 1 /\ s[k - 1] = Ev("exec", s[k].i, "")
        /\ s[k].e = "key" => k > 1 /\ s[k - 1] = Ev("cb", s[k].i, "")
        /\ (s[k].e = "exec" /\ k < Len(s)) => s[k + 1].e = "cb"
        /\ (s[k].e = "cb" /\ k < Len(s)) => s[k + 1].e = "key"
        /\ (s[k].e = "key" /\ s[k].v = "held")
           => /\ k = Len(s)
              /\ tpc[t] \in {"after", "pw_finally", "run_finally", "done"}

\* C9's case: a looping run of two actions ended by the abort key held at the
\* check after its first action.
C9_AbortedAfterFirst ==
  \E t \in Threads :
    /\ loop_enabled
    /\ Len(workflow) = 2
    /\ tpc[t] = "done"
    /\ Steps(t) = << Ev("exec", 0, ""), Ev("cb", 0, ""), Ev("key", 0, "held") >>

\* The second check of the abort key comes right before every pass but the
\* first, and a pass after it starts only if the key was not held.
RecheckedBetweenPasses(t) ==
  LET s == Steps(t) IN
    \A k \in DOMAIN s :
      /\ (s[k].e \in {"exec", "raise"} /\ s[k].i = 0 /\ k > 1)
         => s[k - 1].e = "key2"
      /\ (s[k].e = "key2" /\ s[k].v = "held") => k = Len(s)

\* C10 as claimed: the abort key is checked again between two passes for any
\* configured loop_pause.
C10_RecheckAnyPause == \A t \in Threads : RecheckedBetweenPasses(t)

\* C10, amended: the abort key is checked again between two passes when
\* loop_pause is positive, and the next pass starts only if it is not held.
C10_RecheckPositivePause ==
  \A t \in Threads : loop_pause > 0 => RecheckedBetweenPasses(t)

\* C10's case: a looping run with a positive pause ended by the abort key
\* held at the check between its first and its second pass.
C10_AbortedInPause ==
  \E t \in Threads :
    /\ loop_pause > 0
    /\ tpc[t] = "done"
    /\ Len(Steps(t)) > 1
    /\ Steps(t)[Len(Steps(t))] = Ev("key2", 0, "held")

\* C11 as claimed: while the paused flag is set (and no stop is under way) no
\* action starts executing; only one that was in progress completes.
C11_NoStartWhilePaused ==
  [][\A t \in Threads :
       (paused[t] /\ mpc = "idle" /\ tpc[t] = "for") => tpc'[t] # "exec"]_vars

\* C11, amended: between the return of pause() and the next resume() or
\* stop() a run executes at most one action, the one in progress or else the
\* next one, and after it the run does not get past the callback boundary.
C11_AtMostOneAfterPause ==
  \A t \in Threads :
    /\ since_pause[t] <= 1
    /\ (paused[t] /\ since_pause[t] = 1)
       => tpc[t] \in {"callback", "lock", "waiting", "pw_finally",
                      "run_finally", "done", "killed"}

\* C11's case: a run has executed its second action after pause() returned
\* and is blocked in the pause wait.
C11_RanOneWhilePaused ==
  \E t \in Threads :
    /\ paused[t]
    /\ since_pause[t] = 1
    /\ tpc[t] = "waiting"
    /\ Len(Executed(t)) = 2

\* stop() was called on run t while t was blocked in the pause wait
BlockedAtStop(t) ==
  \E k \in DOMAIN trace[t] : trace[t][k] = Ev("stop_called", 0, "blocked")

\* C12: a run blocked in the pause wait when stop() is called executes no
\* further action and fires no further callback, is not blocked once stop()
\* has done its wakeAll, and ends.
C12_StopWakesPausedRun ==
  /\ [](\A t \in Threads :
          BlockedAtStop(t)
          => /\ \A j, k \in DOMAIN trace[t] :
                  (trace[t][k].e = "stop_called" /\ j > k)
                  => trace[t][j].e \notin {"exec", "raise", "cb"}
             /\ mpc # "stop_wake" => tpc[t] # "waiting"
             /\ tpc[t] \in {"waiting", "abort", "for", "after", "pw_finally",
                            "run_finally", "done", "killed"})
  /\ \A t \in Threads : BlockedAtStop(t) ~> Ended(t)

\* C12's case: a run that was blocked when stop() was called has come out of
\* the wait and ended by itself, with finished emitted.
C12_WokenRunFinished ==
  \E t \in Threads :
    /\ BlockedAtStop(t)
    /\ tpc[t] = "done"
    /\ Has(t, "finished")

\* C13: no wake-up is lost.  A run is blocked in the pause wait only while
\* the paused flag is set: once resume() has returned, or stop() has done its
\* wakeAll, with no pause() after it, the run is not blocked, wherever it was
\* when the calls were made.
C13_NoLostWakeup ==
  \A t \in Threads :
    tpc[t] = "waiting" => (paused[t] /\ mpc \in {"idle", "stop_wake"})

\* C13's case: a run that was blocked in the pause wait, was resumed (not
\* stopped) and has gone on to its next action.
C13_ResumedAndWentOn ==
  \E t \in Threads :
    /\ Has(t, "pausewait")
    /\ ~Has(t, "stop_called")
    /\ ~paused[t]
    /\ trace[t][1] = Ev("play", 0, "")
    /\ Len(trace[t]) >= 4
    /\ trace[t][4] = Ev("pausewait", 0, "")
    /\ Len(Attempted(t)) = 2

\* ------------------------------------------- claims on the perceptual waits
Polls(fns) == poll.pc # "none" /\ poll.fn \in fns

Waits == {"_wait_for_color", "_wait_for_text"}

\* Every RGB channel of the pixel is within the tolerance of the target's.
WithinTolerance(pixel, target, tolerance) ==
  \A c \in 1..3 : Abs(pixel[c] - target[c]) <= tolerance

SomeColorSampleMatched ==
  \E k \in DOMAIN poll.samples :
    /\ poll.samples[k].ok
    /\ WithinTolerance(poll.samples[k].v, poll.args.target_color,
                       poll.args.tolerance)

SomeTextSampleMatched ==
  \E k \in DOMAIN poll.samples :
    /\ poll.samples[k].ok
    /\ TextMatches(poll.args.text, poll.samples[k].v)

SomeSampleMatched ==
  IF poll.fn = "_wait_for_color" THEN SomeColorSampleMatched
                                 ELSE SomeTextSampleMatched

\* C14: a perceptual wait looks at is_playing at each tick: no sample is
\* taken at a tick at which the flag is already cleared.  (Stated as claimed;
\* neither wait reads the flag.)
C14_CancelEndsWait ==
  Polls(Waits) => \A k \in DOMAIN poll.samples : poll.samples[k].playing

PerceptualWaits == {"WAIT_FOR_COLOR", "WAIT_FOR_TEXT"}

\* C15: a wait-for-color or wait-for-text action with its parameters in place
\* completes like any other action, whether or not its condition is met: it
\* does not end the run, and its callback fires.  (Stated as claimed; the
\* action raises before it gets to wait.)
C15_PerceptualWaitCompletes ==
  \A t \in Threads :
    \A k \in DOMAIN trace[t] :
      LET a == workflow[trace[t][k].i + 1] IN
        (trace[t][k].e \in {"exec", "raise"}
           /\ a.action_type \in PerceptualWaits /\ ValidParams(a))
        => trace[t][k].e = "exec"

\* C16: _wait_for_color samples only before the timeout has elapsed, returns
\* True exactly when a sampled pixel had every RGB channel within the
\* tolerance of the target (alpha left out), and with timeout 0 returns False
\* having sampled at most once.
C16_ColorWaitResult ==
  Polls({"_wait_for_color"})
  => /\ \A k \in DOMAIN poll.samples :
          poll.samples[k].at < poll.args.timeout
     /\ poll.pc # "raised"
     /\ poll.pc = "returned"
        => /\ poll.result \in {"True", "False"}
           /\ poll.result = "True" <=> SomeColorSampleMatched
     /\ poll.args.timeout = 0
        => /\ Len(poll.samples) <= 1
           /\ poll.pc = "returned" => poll.result = "False"

\* C16's case: _wait_for_color has returned True on an RGBA pixel that is at
\* the tolerance in every channel, after a pixel one off in one channel.
C16_MatchedOnLaterSample ==
  /\ Polls({"_wait_for_color"})
  /\ poll.pc = "returned"
  /\ poll.result = "True"
  /\ poll.args.tolerance = 10
  /\ Len(poll.samples) = 3
  /\ poll.samples[1].v = << 255, 0, 11 >>
  /\ poll.samples[2].v = << 0, 0, 0, 255 >>
  /\ poll.samples[3].v = << 245, 10, 10 >>

\* C17: a failed capture or recognition is a non-match for its tick only.
\* Neither wait raises once it polls; after any samples, failed ones included,
\* it returns False only when the timeout has elapsed and nothing matched;
\* the number of ticks is bounded by the timeout, and the wait ends.
C17_FailedSampleIsNonMatch ==
  /\ [](Polls(Waits)
        => /\ poll.pc = "raised"
              => (poll.fn = "_wait_for_text" /\ Len(poll.args.region) # 4)
           /\ poll.pc = "returned"
              => /\ poll.result = "False" <=> ~SomeSampleMatched
                 /\ poll.result = "False"
                    => poll.elapsed >= poll.args.timeout
           /\ Len(poll.samples) >= 1
              => (Len(poll.samples) - 1) * PollInterval(poll.fn)
                   < poll.args.timeout)
  /\ <>(poll.pc \in {"returned", "raised"})

\* C17's case: a wait-for-text whose every tick failed has run to its timeout
\* and returned False.
C17_AllTicksFailed ==
  /\ Polls({"_wait_for_text"})
  /\ poll.pc = "returned"
  /\ poll.result = "False"
  /\ Len(poll.samples) = MaxTicks
  /\ \A k \in DOMAIN poll.samples : ~poll.samples[k].ok

\* The region a wait-for-text is given, called directly or as an action.
RegionOf(call) ==
  IF call.fn = "_wait_for_text" THEN call.args.region
                                ELSE call.args.action.params.region

\* C18: a wait-for-text whose region has not exactly 4 values ends in an
\* invalid-argument error (ValueError) without a single tick, called directly
\* or through _execute_action.  (Stated as claimed.)
C18_BadRegionIsInvalidArgument ==
  (Polls({"_wait_for_text", "_execute_action"}) /\ Len(RegionOf(poll)) # 4)
  => /\ poll.pc \in {"call", "raised"}
     /\ poll.samples = << >>
     /\ poll.pc = "raised" => poll.result = "ValueError"

\* ----------------------------------------- claims on display coordinates
\* C19: _get_absolute_coordinates(x, y, screen_id) is (x, y) for a screen_id
\* outside [0, N), negative ones included, and (x + origin_x, y + origin_y)
\* of display screen_id inside, for every list of N >= 0 displays.
C19_AbsoluteCoordinates ==
  tracker.pc = "converted"
  => LET N == Len(screen_info)
         id == tracker.screen_id
     IN IF id \in 0..(N - 1)
          THEN tracker.abs = << tracker.x + screen_info[id + 1].x,
                                tracker.y + screen_info[id + 1].y >>
          ELSE tracker.abs = << tracker.x, tracker.y >>

\* C19's case: coordinates made absolute on the second of two displays whose
\* origin is not (0, 0).
C19_OnSecondDisplay ==
  /\ tracker.pc = "converted"
  /\ ~tracker.applied
  /\ Len(screen_info) = 2
  /\ tracker.screen_id = 1
  /\ screen_info[2] = Screen(-1920, -100)
  /\ tracker.abs = << tracker.x - 1920, tracker.y - 100 >>

\* C20: a position taken over for a valid screen_id and made absolute again
\* for the same screen_id is the position the pointer was at.  (Stated as
\* claimed.)
C20_RoundTrip ==
  ( /\ tracker.pc = "converted"
    /\ tracker.applied
    /\ tracker.screen_id \in 0..(Len(screen_info) - 1) )
  => tracker.abs = tracker.global_pos

\* ------------------------------------------------- claims on the dispatches
RECURSIVE Flatten(_)
Flatten(seqs) ==
  IF seqs = << >> THEN << >> ELSE Head(seqs) \o Flatten(Tail(seqs))

\* The calls of the input backend run t has made, in order: those of each
\* action it got through.
Dispatched(t) ==
  Flatten([k \in DOMAIN Executed(t) |->
             Dispatch(workflow[Executed(t)[k] + 1])])

\* C21: the run of [move(10,10), click(10,10,left), wait(0.5)] on a single
\* display at (0,0), without looping, abort key or failing backend call,
\* makes three dispatches in order (moveTo (10,10), a left click at (10,10),
\* a sleep of 0.5 s), fires the callbacks 0,1,2 and ends without error.
\* (Stated as claimed; the wait raises before it sleeps.)
C21_ScenarioDispatches ==
  \A t \in Threads :
    ( /\ workflow = Scenario
      /\ screen_info = << Screen(0, 0) >>
      /\ tpc[t] = "done"
      /\ Has(t, "play")
      /\ ~loop_enabled
      /\ ~HasHeld(t)
      /\ ~BackendFailed(t) )
    => /\ Dispatched(t) =
            << Call("moveTo", [at |-> << 10, 10 >>, duration |-> 100]),
               Call("click", [at |-> << 10, 10 >>, button |-> "left",
                              duration |-> 100]),
               Call("sleep", [seconds |-> 500]) >>
       /\ Callbacks(t) = << 0, 1, 2 >>
       /\ ~Has(t, "raise")
       /\ ~Has(t, "error")

\* The drags run t has got through, as indices into its executed actions.
DragsDone(t) ==
  { k \in DOMAIN Executed(t) :
      workflow[Executed(t)[k] + 1].action_type = "MOUSE_DRAG" }

\* C22: an executed drag first moves the pointer to its start and then drags
\* to its end, and the move takes half the time the drag takes: both use the
\* same duration, given or defaulted.  (Stated as claimed.)
C22_DragUsesOneDuration ==
  \A t \in Threads :
    \A k \in DragsDone(t) :
      LET calls == Dispatch(workflow[Executed(t)[k] + 1]) IN
        /\ Len(calls) = 2
        /\ calls[1].fn = "moveTo"
        /\ calls[2].fn = "dragTo"
        /\ 2 * calls[1].args.duration = calls[2].args.duration

\* Where a call of the backend leaves the pointer (key calls leave it alone).
PointerCalls == {"moveTo", "click", "doubleClick", "rightClick", "dragTo"}

\* C23: a drag without start_x/start_y starts where the pointer is: when the
\* action before it left the pointer at a position, no call of the drag before
\* its dragTo moves the pointer to another one.  (Stated as claimed.)
C23_DragStartsAtPointer ==
  \A t \in Threads :
    \A k \in DragsDone(t) :
      LET a == workflow[Executed(t)[k] + 1]
          calls == Dispatch(a)
          before == IF k > 1 THEN Dispatch(workflow[Executed(t)[k - 1] + 1])
                             ELSE << >>
      IN ( /\ "start_x" \notin DOMAIN a.params
           /\ "start_y" \notin DOMAIN a.params
           /\ before # << >>
           /\ before[Len(before)].fn \in PointerCalls )
         => \A j \in DOMAIN calls :
              calls[j].fn = "moveTo"
              => calls[j].args.at = before[Len(before)].args.at

\* The stored coordinates each call of a pointer action is made for.
StoredPoints(a) ==
  IF a.action_type = "MOUSE_DRAG"
    THEN << << Get(a.params, "start_x", 0), Get(a.params, "start_y", 0) >>,
            << a.params.end_x, a.params.end_y >> >>
    ELSE << << a.params.x, a.params.y >> >>

PointerKinds ==
  { "MOUSE_MOVE", "MOUSE_CLICK", "MOUSE_DOUBLE_CLICK", "MOUSE_RIGHT_CLICK",
    "MOUSE_DRAG" }

\* C29: a pointer action is converted with the displays as they are when it
\* is executed: each of its calls goes to the stored point plus the origin
\* that display screen_id has then.  (Stated as claimed; the engine keeps the
\* displays it saw when it was made.)
C29_ConvertsOnCurrentDisplays ==
  [][\A t \in Threads :
       (tpc[t] = "exec" /\ tpc'[t] = "callback"
          /\ workflow[idx[t] + 1].action_type \in PointerKinds)
       => LET a == workflow[idx[t] + 1]
              off == ScreenOffset(displays, Get(a.params, "screen_id", 0))
              calls == Dispatch(a)
          IN \A j \in DOMAIN calls :
               calls[j].args.at = << off.x + StoredPoints(a)[j][1],
                                     off.y + StoredPoints(a)[j][2] >>]_vars

\* --------------------------------------------------- claims on the recorder
\* C24: any two actions the recorder emits one after the other, the initial
\* one included, are more than min_move_distance apart (Euclidean) and their
\* positions were read more than min_move_interval apart.
C24_EmittedFarApart ==
  \A k \in 1..(Len(rec.emitted) - 1) :
    /\ DistanceSquared(PosOf(rec.emitted[k + 1]), PosOf(rec.emitted[k]))
         > min_move_distance * min_move_distance
    /\ rec.emitted[k + 1].at - rec.emitted[k].at > min_move_interval

\* C24's case: after the initial action at (0,0) a sample far away but exactly
\* 0.2 s after the start and a later sample exactly 10 px away were passed
\* over, and the third sample was emitted.
C24_BoundarySamplesSkipped ==
  /\ Len(rec.sampled) = 3
  /\ rec.initial_mouse_pos = << 0, 0 >>
  /\ rec.sampled[1] = [pos |-> << 30, 0 >>, at |-> 200]
  /\ rec.sampled[2] = [pos |-> << 6, 8 >>, at |-> 450]
  /\ rec.sampled[3].pos = << 8, 8 >>
  /\ Len(rec.emitted) = 2
  /\ PosOf(rec.emitted[2]) = << 8, 8 >>

RecorderRunning == rec.pc \in {"start", "loop"}

RunInProgress(t) == tpc[t] \notin {"new", "done", "killed"}

\* C26: whatever the toolbar, the Esc shortcut and the finished signals do,
\* the recording thread and a playback thread are never both running.
\* (Stated as claimed.)
C26_RecorderOrPlayback ==
  ~(RecorderRunning /\ \E t \in Threads : RunInProgress(t))

\* C27: while a run is in progress the main window makes no change to the
\* workflow.  (Stated as claimed.)
C27_NoEditDuringRun ==
  [][(\E t \in Threads : RunInProgress(t)) => workflow' = workflow]_vars

\* C28: a run never changes the workflow: every step of a run, whether the
\* run completes, is aborted, is stopped or fails, leaves the list of actions,
\* their order, kinds and params as they are.
C28_RunKeepsWorkflow ==
  [][(\E t \in Threads : Worker(t)) => workflow' = workflow]_vars

\* C28's case: runs that have ended in each way: completed, aborted by the
\* key, failed, and ended by stop().
RunEndedBy(how) ==
  \E t \in Threads :
    /\ Ended(t)
    /\ Has(t, "play")
    /\ CASE how = "completion" ->
              ~Has(t, "raise") /\ ~HasHeld(t) /\ ~Has(t, "stop_called")
              /\ Len(Executed(t)) = Len(workflow)
         [] how = "abort" -> HasHeld(t)
         [] how = "failure" -> Has(t, "raise")
         [] OTHER -> Has(t, "stop_returned") /\ Len(Executed(t)) >= 1

C28_RunFailedAfterOneAction ==
  /\ RunEndedBy("failure")
  /\ Len(workflow) = 2
  /\ \E t \in Threads : Executed(t) = << 0 >>

\* C30: every started run that has ended, in whatever way (forced termination
\* included), has emitted finished exactly once, and no progress or error
\* event of the run comes after it.  (Stated as claimed.)
C30_FinishedOnce ==
  \A t \in Threads :
    Ended(t)
    => /\ Len(SelectEv(trace[t], {"finished"})) = 1
       /\ \A j, k \in DOMAIN trace[t] :
            (trace[t][k].e = "finished" /\ j > k)
            => trace[t][j].e \notin {"cb", "error"}

\* A run is in an action: it is at line 138, in its call of _execute_action.
Executing(t) == tpc[t] = "exec"

\* C31: at most one action is being executed at any time, and in a run the
\* next action starts only after the one before it has finished and its step
\* callback has returned, whatever the interleaving of start requests.
\* (Stated as claimed.)
C31_OneActionAtATime ==
  /\ \A t, u \in Threads : (Executing(t) /\ Executing(u)) => t = u
  /\ \A t \in Threads : \A j, k \in DOMAIN trace[t] :
       ( /\ j < k
         /\ trace[t][j].e \in {"exec", "raise"}
         /\ trace[t][k].e \in {"exec", "raise"} )
       => \E m \in (j + 1)..(k - 1) :
            trace[t][m].e = "cb" /\ trace[t][m].i = trace[t][j].i

\* A call of fn has come back, with a value or an exception.
Came(fn) == poll.fn = fn /\ poll.pc \in {"returned", "raised"}

\* C32: Action.from_dict fails for every saved action whose kind is not a
\* recognized variant, and succeeds for every kind of the action model (the
\* pointer kinds, key press, key combo, text write, the waits), giving an
\* action of that kind.  (Stated as claimed.)
C32_FromDictByKind ==
  Came("from_dict")
  => /\ poll.args.kind \notin ActionKind => poll.pc = "raised"
     /\ poll.args.kind \in ActionKind
          => /\ poll.pc = "returned"
             /\ poll.value.action_type = poll.args.kind

\* C38: a load_workflow that fails leaves the engine as it was: the workflow
\* and the loop_enabled, loop_pause and abort_key settings of before are all
\* kept.  (Stated as claimed.)
C38_FailedLoadKeepsEngine ==
  [][(load_workflow /\ poll'.pc = "raised")
       => UNCHANGED << workflow, loop_enabled, loop_pause, abort_key >>]_vars

\* The displays a returned position may be on: those searched, up to the
\* first that has a hit on the grid of every fifth pixel.
Searched == screens_to_search(poll.args.screen_id)

GridHits(k) ==
  { p \in Positions(screen_info[k]) :
      /\ p[1] % 5 = 0 /\ p[2] % 5 = 0
      /\ WithinTolerance(getpixel(poll.args.shots[k], p[1], p[2]),
                         poll.args.target_color, poll.args.tolerance) }

\* C33: find_color_on_screen returns None when no pixel of the displays
\* searched is within the tolerance of the target; a position it returns has
\* a pixel within the tolerance and is at most 5 away, in x and in y, from
\* the first pixel of the stride-5 grid that matched in scan order, on the
\* first display that has one.
C33_FoundNearFirstGridHit ==
  Came("find_color_on_screen")
  => /\ ( \A j \in DOMAIN Searched : \A p \in Positions(screen_info[Searched[j]]) :
            ~WithinTolerance(getpixel(poll.args.shots[Searched[j]], p[1], p[2]),
                             poll.args.target_color, poll.args.tolerance) )
        => poll.value = << >>
     /\ poll.value # << >>
        => \E j \in DOMAIN Searched :
             LET k == Searched[j]
                 first == ScanFirst(GridHits(k))
             IN /\ \A i \in 1..(j - 1) : GridHits(Searched[i]) = {}
                /\ GridHits(k) # {}
                /\ poll.value \in Positions(screen_info[k])
                /\ WithinTolerance(getpixel(poll.args.shots[k], poll.value[1],
                                            poll.value[2]),
                                   poll.args.target_color, poll.args.tolerance)
                /\ Abs(poll.value[1] - first[1]) <= 5
                /\ Abs(poll.value[2] - first[2]) <= 5

\* C33's case: the grid pixel (5, 5) matched first, and the position returned
\* is another one around it, found before it; the display ends at x = 5.
C33_FoundBeforeGridHit ==
  /\ Came("find_color_on_screen")
  /\ Len(poll.args.shots) = 1
  /\ ScanFirst(GridHits(1) \cup { << 5, 5 >> }) = << 5, 5 >>
  /\ GridHits(1) # {}
  /\ poll.value = << 3, 3 >>

\* The positions a sub-region covers.
CellPositions(c) ==
  (c.x..(c.x + c.actual_width - 1)) \X (c.y..(c.y + c.actual_height - 1))

\* C34: for every display width and height of 1 or more, find_text_on_screen
\* goes through exactly 3 columns by 3 rows of sub-regions, which lie inside
\* the display and together cover it, and the size of the display never makes
\* it fail.  (Stated as claimed.)
C34_ThreeByThree ==
  Came("find_text_on_screen")
  => LET cells == poll.value.cells
         screen == screen_info[1]
     IN /\ poll.value.caught = "none"
        /\ Cardinality(cells) = 9
        /\ Cardinality({ c.x : c \in cells }) = 3
        /\ Cardinality({ c.y : c \in cells }) = 3
        /\ \A c \in cells : CellPositions(c) \subseteq Positions(screen)
        /\ Positions(screen) = UNION { CellPositions(c) : c \in cells }

\* C35: a stop is never lost: once stop() has cleared the playing flag of a
\* run, the run thread never sets it back to true and never goes on to an
\* action, also when stop() comes before the thread has entered
\* play_workflow.  (Stated as claimed; an action the run is already in when
\* stop() is called is not counted.)
C35_StopNeverLost ==
  [][\A t \in Threads :
       Has(t, "stop_called")
       => /\ ~SetPlaying(t)
          /\ ~(ForNext(t) /\ tpc'[t] = "exec")]_vars

\* C36: a finished event of an earlier run never stops or detaches a later
\* run: on_playback_finished acts only on the thread that emitted the event,
\* in whatever order the queued events and a new start are handled.  (Stated
\* as claimed.)
C36_FinishedActsOnItsRun ==
  [][\A t \in Threads :
       on_playback_finished(t)
       => /\ workflow_thread \in {0, t}
          /\ \A u \in Threads \ {t} :
               ~Ended(u) => (UNCHANGED is_playing /\ tpc'[u] = tpc[u])]_vars

\* C37: a run thread that enters play_workflow on an empty workflow ends at
\* once, with looping on or off: is_playing is not set, no action is executed
\* and no callback fires, and its only event is finished.
C37_EmptyWorkflowEndsAtOnce ==
  [][\A t \in Threads :
       /\ (workflow = << >> /\ Enter(t))
          => (tpc'[t] = "run_finally" /\ ~is_playing' /\ trace'[t] = << >>)
       /\ (tpc[t] = "run_finally" /\ trace[t] = << >> /\ Worker(t))
          => /\ tpc'[t] = "done"
             /\ ~is_playing'
             /\ trace'[t] = << Ev("finished", 0, "") >>]_vars

\* C37's case: with looping on, the workflow was emptied after the start, and
\* the run has ended with finished as its only event.
C37_EndedOnEmptyLooping ==
  \E t \in Threads :
    /\ tpc[t] = "done"
    /\ workflow = << >>
    /\ loop_enabled
    /\ trace[t] = << Ev("finished", 0, "") >>

\* C39: a query of the abort key that fails counts as "not pressed": no
\* exception comes out of it, and it neither stops nor fails the run, which
\* goes on with the next action, and with the next pass when it loops.
C39_FailedKeyQueryGoesOn ==
  \A t \in Threads :
    /\ ~HasHeld(t)
    /\ ~Has(t, "error")
    /\ pending[t] = "none"
    /\ IsCycle(Attempted(t), Len(workflow))
    /\ \A k \in DOMAIN trace[t] :
         trace[t][k].e = "raise" => trace[t][k].v \in {"AttributeError"}
                                                   \cup BackendOutcomes
    /\ (tpc[t] = "done" /\ ~Has(t, "raise"))
         => (~loop_enabled /\ Executed(t) = UpTo(Len(workflow)))

\* C39's case: the query failed after each action and in the pause between
\* two passes, and the run has gone on into its second pass.
C39_WentOnAfterFailedQueries ==
  \E t \in Threads :
    /\ loop_enabled
    /\ Len(workflow) = 2
    /\ Executed(t) = << 0, 1, 0 >>
    /\ Len(SelectEv(trace[t], {"key"})) = 3
    /\ Has(t, "key2")

\* The call that takes the pointer to where a recorded action was recorded.
MoveToRecorded(a) ==
  Call("moveTo", [at |-> << a.params.x, a.params.y >>, duration |-> 100])

\* C40: a pointer move the recorder emitted at the absolute position p (it
\* has no screen_id) takes the pointer to p when it is replayed, on every
\* arrangement of displays, wherever display 0 is.  (Stated as claimed.)
C40_ReplayedWhereRecorded ==
  \A t \in Threads :
    Dispatched(t) = [k \in DOMAIN Executed(t) |->
                       MoveToRecorded(workflow[Executed(t)[k] + 1])]

\* The same where the first display is at (0, 0) or none is reported.
C40_ReplayedWhereRecordedAtOrigin ==
  (screen_info = << >> \/ screen_info[1] = Screen(0, 0))
    => C40_ReplayedWhereRecorded

\* A recorded move has been replayed on displays of which the first is not at
\* (0, 0).
C40_ReplayedOffOrigin ==
  \E t \in Threads :
    /\ Executed(t) = << 0 >>
    /\ rec.delivered = 1
    /\ screen_info # << >>
    /\ screen_info[1] # Screen(0, 0)

====
